---- MODULE Spec2Model ----
(***************************************************************************)
(* Hourly dispatch (solar, battery, gas) and levelized cost of the model.   *)
(*                                                                         *)
(* The repository holds several variants of the same page script; the     *)
(* ones modelled here are                                                  *)
(*   "modelA"  src/model.js lines 1-510      (no positivity floor)         *)
(*   "modelB"  src/model.js lines 512-1022   (inputs clamped to 0.0001)    *)
(*   "p000"    src/unnamed/part_000          (Update button, length guard) *)
(*   "p001"    src/unnamed/part_001          (fuel cost without efficiency)*)
(*   "p002"    src/unnamed/part_002          (net-load loop, signed flow)  *)
(*   "p004"    src/unnamed/part_004 1-437    (net-load loop)               *)
(*                                                                         *)
(* JavaScript numbers are modelled as extended rationals <<n, d>>:        *)
(*   d > 0  the finite value n/d in lowest terms,                          *)
(*   <<1,0>> and <<-1,0>>  +Infinity and -Infinity,                        *)
(*   <<0,0>> NaN.                                                          *)
(*   <<0,-1>> a value the model does not hold exactly (see Inexact).       *)
(* Rounding of IEEE doubles and the sign of zero are not modelled.         *)
(***************************************************************************)
EXTENDS Integers, Sequences, FiniteSets, TLC

\* Hours of the simulated year.  The source fixes 8760; the model runs a
\* year of this many hours so that every profile can be enumerated.
HOURS_PER_YEAR == 3

(***************************************************************************)
(* Numbers                                                                 *)
(***************************************************************************)
Abs(i) == IF i < 0 THEN -i ELSE i

Sgn(i) == IF i < 0 THEN -1 ELSE IF i > 0 THEN 1 ELSE 0

RECURSIVE GCD(_, _)
GCD(a, b) == IF b = 0 THEN a ELSE GCD(b, a % b)

\* the number n/d in canonical form
Norm(n, d) ==
    IF d = 0 THEN <<Sgn(n), 0>>
    ELSE LET g == GCD(Abs(n), Abs(d))
             s == IF d < 0 THEN -1 ELSE 1
         IN  <<(s * n) \div g, (s * d) \div g>>

NaN == <<0, 0>>
Zero == <<0, 1>>
Int2Num(i) == <<i, 1>>

IsNaN(x) == x = NaN

\* A number that is not NaN and whose exact value the model does not hold:
\* a numerator or denominator beyond RangeLimit, or a power Math.pow gives
\* that is not rational.  Nothing is asserted of such a value.
Inexact == <<0, -1>>

IsInexact(x) == x[2] < 0

\* the numerators and denominators held exactly
RangeLimit == 1000 * 1000 * 1000

\* a * b stays within RangeLimit
Fits(a, b) == a = 0 \/ b = 0 \/ Abs(a) <= RangeLimit \div Abs(b)

\* x * y   (Infinity * 0 is NaN)
Mul(x, y) ==
    IF IsNaN(x) \/ IsNaN(y) THEN NaN
    ELSE IF IsInexact(x) \/ IsInexact(y) THEN Inexact
    ELSE IF x[2] = 0 \/ y[2] = 0 THEN <<Sgn(x[1]) * Sgn(y[1]), 0>>
    ELSE LET g1 == GCD(Abs(x[1]), y[2])
             g2 == GCD(Abs(y[1]), x[2])
             a == x[1] \div g1
             b == y[1] \div g2
             c == x[2] \div g2
             d == y[2] \div g1
         IN  IF Fits(a, b) /\ Fits(c, d) THEN <<a * b, c * d>> ELSE Inexact

\* 1 / y   (1/0 is Infinity)
Recip(y) ==
    IF IsInexact(y) THEN Inexact
    ELSE IF y[1] < 0 THEN <<-y[2], -y[1]>> ELSE <<y[2], y[1]>>

\* x / y   (0/0 and Infinity/Infinity are NaN)
Div(x, y) == Mul(x, Recip(y))

\* x + y   (Infinity + -Infinity is NaN)
Add(x, y) ==
    IF IsNaN(x) \/ IsNaN(y) THEN NaN
    ELSE IF IsInexact(x) \/ IsInexact(y) THEN Inexact
    ELSE IF x[2] = 0 /\ y[2] = 0 THEN (IF x = y THEN x ELSE NaN)
    ELSE IF x[2] = 0 THEN x
    ELSE IF y[2] = 0 THEN y
    ELSE LET g == GCD(x[2], y[2])
             p == y[2] \div g
             q == x[2] \div g
         IN  IF Fits(x[1], p) /\ Fits(y[1], q) /\ Fits(q, y[2])
             THEN Norm(x[1] * p + y[1] * q, q * y[2])
             ELSE Inexact

Neg(x) == IF IsInexact(x) THEN Inexact ELSE <<-x[1], x[2]>>

\* x - y
Sub(x, y) == Add(x, Neg(y))

\* a/b < c/d for b > 0 and d > 0, compared by whole parts and remainders
RECURSIVE LtFrac(_, _, _, _)
LtFrac(a, b, c, d) ==
    IF a \div b # c \div d THEN a \div b < c \div d
    ELSE IF c % d = 0 THEN FALSE
    ELSE IF a % b = 0 THEN TRUE
    ELSE LtFrac(d, c % d, b, a % b)

\* x < y   (false when either is NaN)
Lt(x, y) ==
    IF IsNaN(x) \/ IsNaN(y) \/ IsInexact(x) \/ IsInexact(y) THEN FALSE
    ELSE IF x[2] = 0 /\ y[2] = 0 THEN x[1] < y[1]
    ELSE IF Fits(x[1], y[2]) /\ Fits(y[1], x[2]) THEN x[1] * y[2] < y[1] * x[2]
    ELSE LtFrac(x[1], x[2], y[1], y[2])

\* x > y
Gt(x, y) == Lt(y, x)

\* x <= y
Le(x, y) == Lt(x, y) \/ (~IsNaN(x) /\ x = y)

\* Math.min(x, y)
MathMin(x, y) ==
    IF IsNaN(x) \/ IsNaN(y) THEN NaN ELSE IF Lt(y, x) THEN y ELSE x

\* Math.max(x, y)
MathMax(x, y) ==
    IF IsNaN(x) \/ IsNaN(y) THEN NaN ELSE IF Lt(x, y) THEN y ELSE x

\* Math.abs(x)
MathAbs(x) == IF IsInexact(x) THEN Inexact ELSE <<Abs(x[1]), x[2]>>

\* x || y on numbers: 0 and NaN are falsy
OrElse(x, y) == IF IsNaN(x) \/ x = Zero THEN y ELSE x

\* b multiplied k times, k >= 0
RECURSIVE IntPow(_, _)
IntPow(b, k) == IF k = 0 THEN Int2Num(1) ELSE Mul(IntPow(b, k - 1), b)

\* Math.pow(b, e).  An integer exponent of modest size gives the exact
\* power.  An integer exponent of 1024 or more on a base of 2 or more is
\* beyond the largest double (below 2^1024) and gives Infinity.  The other
\* powers are not held exactly.
MathPow(b, e) ==
    IF IsNaN(e) THEN NaN
    ELSE IF e = Zero THEN Int2Num(1)
    ELSE IF IsNaN(b) THEN NaN
    ELSE IF IsInexact(b) \/ IsInexact(e) THEN Inexact
    ELSE IF e[2] = 1 /\ e[1] > 0 /\ e[1] <= 40 THEN IntPow(b, e[1])
    ELSE IF e[2] = 1 /\ e[1] < 0 /\ e[1] >= -40 THEN Recip(IntPow(b, -e[1]))
    ELSE IF e[2] = 1 /\ e[1] >= 1024 /\ Le(Int2Num(2), b) THEN <<1, 0>>
    ELSE Inexact


(***************************************************************************)
(* JavaScript values held in the profile array and in the CSV rows         *)
(***************************************************************************)
Undefined == <<"undefined">>
NumV(x) == <<"number", x>>

\* ToNumber, as applied by the * operator: undefined becomes NaN
ToNumber(v) == IF v[1] = "number" THEN v[2] ELSE NaN

\* v || 0 on a row's cell: undefined, null, 0 and NaN are falsy
CellOrZero(v) ==
    IF v[1] = "number" /\ ~IsNaN(v[2]) /\ v[2] # Zero THEN v ELSE NumV(Zero)

\* arr[h] of a JavaScript array held as a sequence: undefined past the end
ArrayAt(arr, i) == IF i >= 0 /\ i < Len(arr) THEN arr[i + 1] ELSE Undefined

\* parseFloat of the text of an input field
ParseFloat(s) ==
    CASE s = ""    -> NaN
      [] s = "0"   -> Zero
      [] s = "-1"  -> <<-1, 1>>
      [] s = "0.5" -> <<1, 2>>
      [] s = "1"   -> <<1, 1>>
      [] s = "2"   -> <<2, 1>>
      [] s = "3"   -> <<3, 1>>
      [] OTHER     -> NaN

(***************************************************************************)
(* Inputs: the input fields of the page and the rows of solarprofile.csv   *)
(***************************************************************************)
Variants == {"modelA", "modelB", "p000", "p001", "p002", "p004"}

DispatchFieldNames == {"solarCap", "batteryCap", "inverterRatio"}

CostFieldNames ==
    {"gasCapex", "solarCapex", "batteryCapex", "gasFixedOM", "solarFixedOM",
     "batteryFixedOM", "gasVarOM", "gasFuel", "gasEfficiency", "waccFossil",
     "waccRenew", "lifetimeFossil", "lifetimeSolar"}

FieldNames == DispatchFieldNames \cup CostFieldNames

SolarCapTexts == {"0", "-1", "3"}
BatteryCapTexts == {"0", "-1", "0.5", "1"}
InverterRatioTexts == {"", "1", "2", "-1"}
ParamTexts == {"", "0", "-1", "2"}

\* the fields of a page on which nothing has been edited
BaseFields ==
    [f \in FieldNames |->
        IF f = "solarCap" THEN "3" ELSE IF f = "batteryCap" THEN "1" ELSE "1"]

\* field settings that vary the three dispatch fields
DispatchSettings ==
    {[BaseFields EXCEPT !["solarCap"] = s, !["batteryCap"] = b,
                        !["inverterRatio"] = r] :
        s \in SolarCapTexts, b \in BatteryCapTexts, r \in InverterRatioTexts}

\* field settings in which one field, any of them, holds an unusual text
ParamSettings ==
    {[BaseFields EXCEPT ![f] = t] : f \in FieldNames, t \in ParamTexts}

\* the electricity cell of a parsed row
CellValues == {Undefined, NumV(Zero), NumV(<<1, 4>>), NumV(<<1, 1>>)}

RECURSIVE SeqsOf(_, _)
SeqsOf(S, n) ==
    IF n = 0 THEN {<<>>}
    ELSE {Append(q, x) : q \in SeqsOf(S, n - 1), x \in S}

\* results.data: a full year of rows with a number in each, or a file one
\* row short, in which a row may also lack its value
CsvFiles ==
    SeqsOf(CellValues \ {Undefined}, HOURS_PER_YEAR)
        \cup SeqsOf(CellValues, HOURS_PER_YEAR - 1)

\* the file used when the cost fields are varied
PlainCsv == [i \in 1..HOURS_PER_YEAR |-> NumV(<<1, 4>>)]


(***************************************************************************)
(* Reading the input fields                                                *)
(***************************************************************************)
Floor == <<1, 10000>>          \* 0.0001
Hundred == Int2Num(100)
Thousand == Int2Num(1000)

\* the unit conversions that follow the reads
WithUnits(p) ==
    [n \in DOMAIN p \cup {"solarCapMW", "batteryCapMWh"} |->
        IF n = "solarCapMW" THEN Mul(p.solarCapGW, Thousand)
        ELSE IF n = "batteryCapMWh" THEN Mul(p.batteryCapGWh, Thousand)
        ELSE p[n]]

\* parseFloat(field) || fallback
ReadOr(fld, f, fallback) == OrElse(ParseFloat(fld[f]), fallback)

\* ReadClamped with a floor of 0.001
ReadClamped_WrongFloor(fld, f) ==
    MathMax(OrElse(ParseFloat(fld[f]), Zero), <<1, 1000>>)

\* Math.max(parseFloat(field) || 0, 0.0001)
ReadClamped(fld, f) == MathMax(OrElse(ParseFloat(fld[f]), Zero), Floor)

\* model.js, first script, part_000, part_001 and part_002
ReadInputsA(fld) ==
    WithUnits(
    [solarCapGW     |-> ReadOr(fld, "solarCap", Zero),
     batteryCapGWh  |-> ReadOr(fld, "batteryCap", Zero),
     gasCapex       |-> ReadOr(fld, "gasCapex", Int2Num(800)),
     solarCapex     |-> ReadOr(fld, "solarCapex", Int2Num(450)),
     batteryCapex   |-> ReadOr(fld, "batteryCapex", Int2Num(200)),
     gasFixedOM     |-> ReadOr(fld, "gasFixedOM", Int2Num(18000)),
     solarFixedOM   |-> ReadOr(fld, "solarFixedOM", Int2Num(8000)),
     batteryFixedOM |-> ReadOr(fld, "batteryFixedOM", Int2Num(6000)),
     gasVarOM       |-> ReadOr(fld, "gasVarOM", Int2Num(4)),
     gasFuel        |-> ReadOr(fld, "gasFuel", Int2Num(40)),
     gasEfficiency  |-> Div(ReadOr(fld, "gasEfficiency", Int2Num(45)), Hundred),
     inverterRatio  |-> ReadOr(fld, "inverterRatio", <<6, 5>>),
     waccFossil     |-> Div(ReadOr(fld, "waccFossil", Int2Num(8)), Hundred),
     waccRenew      |-> Div(ReadOr(fld, "waccRenew", Int2Num(5)), Hundred),
     lifetimeFossil |-> ReadOr(fld, "lifetimeFossil", Int2Num(25)),
     lifetimeSolar  |-> ReadOr(fld, "lifetimeSolar", Int2Num(35))])

\* model.js, second script: every input clamped to 0.0001
ReadInputsB(fld) ==
    WithUnits(
    [solarCapGW     |-> ReadClamped(fld, "solarCap"),
     batteryCapGWh  |-> ReadClamped(fld, "batteryCap"),
     gasCapex       |-> ReadClamped(fld, "gasCapex"),
     solarCapex     |-> ReadClamped(fld, "solarCapex"),
     batteryCapex   |-> ReadClamped(fld, "batteryCapex"),
     gasFixedOM     |-> ReadClamped(fld, "gasFixedOM"),
     solarFixedOM   |-> ReadClamped(fld, "solarFixedOM"),
     batteryFixedOM |-> ReadClamped(fld, "batteryFixedOM"),
     gasVarOM       |-> ReadClamped(fld, "gasVarOM"),
     gasFuel        |-> ReadClamped(fld, "gasFuel"),
     gasEfficiency  |-> Div(ReadClamped(fld, "gasEfficiency"), Hundred),
     inverterRatio  |-> ReadClamped(fld, "inverterRatio"),
     waccFossil     |-> Div(ReadClamped(fld, "waccFossil"), Hundred),
     waccRenew      |-> Div(ReadClamped(fld, "waccRenew"), Hundred),
     lifetimeFossil |-> ReadClamped(fld, "lifetimeFossil"),
     lifetimeSolar  |-> ReadClamped(fld, "lifetimeSolar")])

\* part_004, first script: the percentages are divided before the fallback
ReadInputs004(fld) ==
    WithUnits(
    [solarCapGW     |-> ReadOr(fld, "solarCap", Zero),
     batteryCapGWh  |-> ReadOr(fld, "batteryCap", Zero),
     gasCapex       |-> ReadOr(fld, "gasCapex", Int2Num(800)),
     solarCapex     |-> ReadOr(fld, "solarCapex", Int2Num(450)),
     batteryCapex   |-> ReadOr(fld, "batteryCapex", Int2Num(200)),
     gasFixedOM     |-> ReadOr(fld, "gasFixedOM", Int2Num(18000)),
     solarFixedOM   |-> ReadOr(fld, "solarFixedOM", Int2Num(8000)),
     batteryFixedOM |-> ReadOr(fld, "batteryFixedOM", Int2Num(6000)),
     gasVarOM       |-> ReadOr(fld, "gasVarOM", Int2Num(4)),
     gasFuel        |-> ReadOr(fld, "gasFuel", Int2Num(40)),
     gasEfficiency  |->
        OrElse(Div(ParseFloat(fld["gasEfficiency"]), Hundred), <<9, 20>>),
     inverterRatio  |-> ReadOr(fld, "inverterRatio", <<6, 5>>),
     waccFossil     |->
        OrElse(Div(ParseFloat(fld["waccFossil"]), Hundred), <<2, 25>>),
     waccRenew      |->
        OrElse(Div(ParseFloat(fld["waccRenew"]), Hundred), <<1, 20>>),
     lifetimeFossil |-> ReadOr(fld, "lifetimeFossil", Int2Num(25)),
     lifetimeSolar  |-> ReadOr(fld, "lifetimeSolar", Int2Num(35))])

ReadInputs(v, fld) ==
    CASE v = "modelB" -> ReadInputsB(fld)
      [] v = "p004"   -> ReadInputs004(fld)
      [] OTHER        -> ReadInputsA(fld)

\* the names of the parameters read from the fields
ParamNames ==
    {"solarCapGW", "batteryCapGWh", "gasCapex", "solarCapex", "batteryCapex",
     "gasFixedOM", "solarFixedOM", "batteryFixedOM", "gasVarOM", "gasFuel",
     "gasEfficiency", "inverterRatio", "waccFossil", "waccRenew",
     "lifetimeFossil", "lifetimeSolar"}

(***************************************************************************)
(* State                                                                   *)
(***************************************************************************)
VARIABLES
    variant,       \* which script the page runs
    fields,        \* the text of every input field
    csvRows,       \* results.data of solarprofile.csv
    solarProfile,  \* the global profile array
    loaded,        \* the load-complete callback has run
    listener,      \* part_000: the Update button has its click listener
    pc,            \* position inside runModel, "idle" outside it
    params,        \* the constants read at the top of runModel
    h,             \* the loop index
    batterySoC,    \* the state of charge
    flows,         \* the hourly arrays of the run
    loc,           \* the block-scoped values of the current iteration
    totals,        \* the sums computed after the loop
    alerted,       \* part_000: the run ended at the length guard
    costs,         \* the cost results computed after the sums
    read,          \* the field texts as the run read them
    prev,          \* what the run before this one read and produced
    edits,         \* how many times a field has been edited
    crfArgs,       \* the arguments of a call of calcCRF on its own
    crfOut         \* what that call returned

vars == <<variant, fields, csvRows, solarProfile, loaded, listener, pc,
          params, h, batterySoC, flows, loc, totals, alerted, costs, read,
          prev, edits, crfArgs, crfOut>>

\* the variables of the call of calcCRF on its own
crfVars == <<crfArgs, crfOut>>

Hours == 0..(HOURS_PER_YEAR - 1)

None == [n \in {} |-> Zero]

\* new Array(HOURS_PER_YEAR).fill(0)
ZeroArray == [i \in Hours |-> Zero]

\* the arrays each script allocates
Channels(v) ==
    CASE v = "p000" -> {"solarUsed", "batteryOut", "gasOut", "batteryIn"}
      [] v = "p001" -> {"solarUsed", "batteryOut", "gasUsed", "batteryIn"}
      [] v = "p002" -> {"solarFlow", "batteryFlow", "gasFlow"}
      [] v = "p004" -> {"solarGen", "batteryGen", "gasGen"}
      [] OTHER      -> {"solarUsedFlow", "batteryFlow", "gasFlow",
                        "solarCurtailedFlow", "totalSolarFlow"}

Init ==
    /\ variant \in Variants
    /\ \E choice \in (DispatchSettings \X CsvFiles)
                     \cup (ParamSettings \X {PlainCsv}) :
          /\ fields = choice[1]
          /\ csvRows = choice[2]
    /\ solarProfile = <<>>
    /\ loaded = FALSE
    /\ listener = FALSE
    /\ pc = "idle"
    /\ params = None
    /\ h = 0
    /\ batterySoC = Zero
    /\ flows = None
    /\ loc = None
    /\ totals = None
    /\ alerted = FALSE
    /\ costs = None
    /\ read = None
    /\ prev = None
    /\ edits = 0
    /\ crfArgs = None
    /\ crfOut = None


(***************************************************************************)
(* The hourly loop.  Each step operator takes the constants of the run     *)
(* (prm), the state of charge (soc), the arrays (fl), the values of the    *)
(* current iteration (lc) and the loop index (hh), and returns the three   *)
(* it may change.                                                          *)
(***************************************************************************)
Demand == Thousand

\* solarCapMW / inverterRatio
MaxSolarAC(prm) == Div(prm.solarCapMW, prm.inverterRatio)

\* ClippedSolarMW without the inverter limit
ClippedSolarMW_Unclipped(prm, profile, hh) ==
    Mul(ToNumber(ArrayAt(profile, hh)), prm.solarCapMW)

\* Math.min(solarProfile[h] * solarCapMW, maxSolarAC)
ClippedSolarMW(prm, profile, hh) ==
    MathMin(Mul(ToNumber(ArrayAt(profile, hh)), prm.solarCapMW), MaxSolarAC(prm))

\* SolarStepAB sending only half of the clipped solar to load
SolarStepAB_HalfToLoad(prm, profile, soc, fl, lc, hh) ==
    LET clippedSolarMW == ClippedSolarMW(prm, profile, hh)
        directSolarUsed == MathMin(Demand, Div(clippedSolarMW, Int2Num(2)))
    IN  [soc   |-> soc,
         flows |-> [fl EXCEPT !.totalSolarFlow[hh] = clippedSolarMW,
                              !.solarUsedFlow[hh] = directSolarUsed],
         loc   |-> [clippedSolarMW  |-> clippedSolarMW,
                    directSolarUsed |-> directSolarUsed,
                    demandLeft      |-> Sub(Demand, directSolarUsed)]]

\* model.js: potential solar, then solar straight to load
SolarStepAB(prm, profile, soc, fl, lc, hh) ==
    LET clippedSolarMW == ClippedSolarMW(prm, profile, hh)
        directSolarUsed == MathMin(Demand, clippedSolarMW)
    IN  [soc   |-> soc,
         flows |-> [fl EXCEPT !.totalSolarFlow[hh] = clippedSolarMW,
                              !.solarUsedFlow[hh] = directSolarUsed],
         loc   |-> [clippedSolarMW  |-> clippedSolarMW,
                    directSolarUsed |-> directSolarUsed,
                    demandLeft      |-> Sub(Demand, directSolarUsed)]]

\* ChargeStepAB storing only half of the energy it takes
ChargeStepAB_Lossy(prm, soc, fl, lc, hh) ==
    LET leftoverSolar == Sub(lc.clippedSolarMW, lc.directSolarUsed)
        spaceInBattery == Sub(prm.batteryCapMWh, soc)
        batteryCharge ==
            IF Gt(leftoverSolar, Zero)
            THEN MathMin(leftoverSolar, spaceInBattery) ELSE Zero
        stored == Gt(leftoverSolar, Zero) /\ Gt(batteryCharge, Zero)
        leftoverAfterCharge == Sub(leftoverSolar, batteryCharge)
        fl1 == IF stored
               THEN [fl EXCEPT !.batteryFlow[hh] = Neg(batteryCharge)] ELSE fl
        fl2 == IF Gt(leftoverAfterCharge, Zero)
               THEN [fl1 EXCEPT !.solarCurtailedFlow[hh] = leftoverAfterCharge]
               ELSE fl1
    IN  [soc   |-> IF stored THEN Add(soc, Div(batteryCharge, Int2Num(2))) ELSE soc,
         flows |-> fl2,
         loc   |-> [n \in DOMAIN lc \cup
                         {"leftoverSolar", "batteryCharge", "leftoverAfterCharge"} |->
                     CASE n = "leftoverSolar" -> leftoverSolar
                       [] n = "batteryCharge" -> batteryCharge
                       [] n = "leftoverAfterCharge" -> leftoverAfterCharge
                       [] OTHER -> lc[n]]]

\* model.js: leftover solar charges the battery, the rest is curtailed
ChargeStepAB(prm, soc, fl, lc, hh) ==
    LET leftoverSolar == Sub(lc.clippedSolarMW, lc.directSolarUsed)
        spaceInBattery == Sub(prm.batteryCapMWh, soc)
        batteryCharge ==
            IF Gt(leftoverSolar, Zero)
            THEN MathMin(leftoverSolar, spaceInBattery) ELSE Zero
        stored == Gt(leftoverSolar, Zero) /\ Gt(batteryCharge, Zero)
        leftoverAfterCharge == Sub(leftoverSolar, batteryCharge)
        fl1 == IF stored
               THEN [fl EXCEPT !.batteryFlow[hh] = Neg(batteryCharge)] ELSE fl
        fl2 == IF Gt(leftoverAfterCharge, Zero)
               THEN [fl1 EXCEPT !.solarCurtailedFlow[hh] = leftoverAfterCharge]
               ELSE fl1
    IN  [soc   |-> IF stored THEN Add(soc, batteryCharge) ELSE soc,
         flows |-> fl2,
         loc   |-> [n \in DOMAIN lc \cup
                         {"leftoverSolar", "batteryCharge", "leftoverAfterCharge"} |->
                     CASE n = "leftoverSolar" -> leftoverSolar
                       [] n = "batteryCharge" -> batteryCharge
                       [] n = "leftoverAfterCharge" -> leftoverAfterCharge
                       [] OTHER -> lc[n]]]

\* DischargeStepAB giving at most half of the state of charge
DischargeStepAB_KeepsReserve(prm, soc, fl, lc, hh) ==
    LET netLoad == lc.demandLeft
        runs == Gt(netLoad, Zero) /\ Gt(soc, Zero)
        batteryDischarge == MathMin(netLoad, Div(soc, Int2Num(2)))
    IN  [soc   |-> IF runs THEN Sub(soc, batteryDischarge) ELSE soc,
         flows |-> IF runs /\ Gt(batteryDischarge, Zero)
                   THEN [fl EXCEPT !.batteryFlow[hh] = batteryDischarge] ELSE fl,
         loc   |-> [n \in DOMAIN lc \cup {"netLoad"} |->
                     IF n = "netLoad"
                     THEN (IF runs THEN Sub(netLoad, batteryDischarge) ELSE netLoad)
                     ELSE lc[n]]]

\* model.js: the battery discharges for the demand that is left
DischargeStepAB(prm, soc, fl, lc, hh) ==
    LET netLoad == lc.demandLeft
        runs == Gt(netLoad, Zero) /\ Gt(soc, Zero)
        batteryDischarge == MathMin(netLoad, soc)
    IN  [soc   |-> IF runs THEN Sub(soc, batteryDischarge) ELSE soc,
         flows |-> IF runs /\ Gt(batteryDischarge, Zero)
                   THEN [fl EXCEPT !.batteryFlow[hh] = batteryDischarge] ELSE fl,
         loc   |-> [n \in DOMAIN lc \cup {"netLoad"} |->
                     IF n = "netLoad"
                     THEN (IF runs THEN Sub(netLoad, batteryDischarge) ELSE netLoad)
                     ELSE lc[n]]]

\* GasStepAB serving the demand left after solar, the discharge forgotten
GasStepAB_IgnoresDischarge(prm, soc, fl, lc, hh) ==
    [soc   |-> soc,
     flows |-> IF Gt(lc.demandLeft, Zero)
               THEN [fl EXCEPT !.gasFlow[hh] = lc.demandLeft] ELSE fl,
     loc   |-> IF Gt(lc.netLoad, Zero) THEN [lc EXCEPT !.netLoad = Zero] ELSE lc]

\* GasStepAB writing the gas output into the entry of hour 0
GasStepAB_WritesFirstHour(prm, soc, fl, lc, hh) ==
    [soc   |-> soc,
     flows |-> IF Gt(lc.netLoad, Zero)
               THEN [fl EXCEPT !.gasFlow[0] = lc.netLoad] ELSE fl,
     loc   |-> IF Gt(lc.netLoad, Zero) THEN [lc EXCEPT !.netLoad = Zero] ELSE lc]

\* model.js: the remainder comes from gas
GasStepAB(prm, soc, fl, lc, hh) ==
    [soc   |-> soc,
     flows |-> IF Gt(lc.netLoad, Zero)
               THEN [fl EXCEPT !.gasFlow[hh] = lc.netLoad] ELSE fl,
     loc   |-> IF Gt(lc.netLoad, Zero) THEN [lc EXCEPT !.netLoad = Zero] ELSE lc]

\* part_000 and part_001: solar to load
SolarStep000(prm, profile, soc, fl, lc, hh) ==
    LET clippedSolarMW == ClippedSolarMW(prm, profile, hh)
        used == MathMin(clippedSolarMW, Demand)
    IN  [soc   |-> soc,
         flows |-> [fl EXCEPT !.solarUsed[hh] = used],
         loc   |-> [clippedSolarMW |-> clippedSolarMW,
                    demand         |-> Sub(Demand, used),
                    leftoverSolar  |-> Sub(clippedSolarMW, used)]]

\* part_000 and part_001: charge the battery
ChargeStep000(prm, soc, fl, lc, hh) ==
    LET runs == Gt(lc.leftoverSolar, Zero) /\ Lt(soc, prm.batteryCapMWh)
        space == Sub(prm.batteryCapMWh, soc)
        charge == MathMin(lc.leftoverSolar, space)
    IN  [soc   |-> IF runs THEN Add(soc, charge) ELSE soc,
         flows |-> IF runs THEN [fl EXCEPT !.batteryIn[hh] = Neg(charge)] ELSE fl,
         loc   |-> IF runs
                   THEN [lc EXCEPT !.leftoverSolar = Sub(lc.leftoverSolar, charge)]
                   ELSE lc]

\* part_000 and part_001: discharge the battery if demand remains
DischargeStep000(prm, soc, fl, lc, hh) ==
    LET runs == Gt(lc.demand, Zero) /\ Gt(soc, Zero)
        discharge == MathMin(lc.demand, soc)
    IN  [soc   |-> IF runs THEN Sub(soc, discharge) ELSE soc,
         flows |-> IF runs THEN [fl EXCEPT !.batteryOut[hh] = discharge] ELSE fl,
         loc   |-> IF runs THEN [lc EXCEPT !.demand = Sub(lc.demand, discharge)]
                   ELSE lc]

\* part_000: if still demand, gas
GasStep000(prm, soc, fl, lc, hh) ==
    [soc   |-> soc,
     flows |-> IF Gt(lc.demand, Zero)
               THEN [fl EXCEPT !.gasOut[hh] = lc.demand] ELSE fl,
     loc   |-> IF Gt(lc.demand, Zero) THEN [lc EXCEPT !.demand = Zero] ELSE lc]

\* part_001: if still demand, gas
GasStep001(prm, soc, fl, lc, hh) ==
    [soc   |-> soc,
     flows |-> IF Gt(lc.demand, Zero)
               THEN [fl EXCEPT !.gasUsed[hh] = lc.demand] ELSE fl,
     loc   |-> IF Gt(lc.demand, Zero) THEN [lc EXCEPT !.demand = Zero] ELSE lc]

\* part_002: all the clipped solar is recorded, and the net load after it
SolarStep002(prm, profile, soc, fl, lc, hh) ==
    LET clippedSolarMW == ClippedSolarMW(prm, profile, hh)
    IN  [soc   |-> soc,
         flows |-> [fl EXCEPT !.solarFlow[hh] = clippedSolarMW],
         loc   |-> [clippedSolarMW |-> clippedSolarMW,
                    netLoad        |-> Sub(Demand, clippedSolarMW)]]

\* part_002: discharge on a positive net load, otherwise charge with the
\* surplus while there is space
BatteryStep002(prm, soc, fl, lc, hh) ==
    IF Gt(lc.netLoad, Zero)
    THEN LET discharge == MathMin(lc.netLoad, soc)
         IN  IF Gt(soc, Zero)
             THEN [soc   |-> Sub(soc, discharge),
                   flows |-> [fl EXCEPT !.batteryFlow[hh] = discharge],
                   loc   |-> [lc EXCEPT !.netLoad = Sub(lc.netLoad, discharge)]]
             ELSE [soc |-> soc, flows |-> fl, loc |-> lc]
    ELSE LET surplus == Neg(lc.netLoad)
             space == Sub(prm.batteryCapMWh, soc)
             charge == MathMin(surplus, space)
         IN  IF Gt(space, Zero)
             THEN [soc   |-> Add(soc, charge),
                   flows |-> [fl EXCEPT !.batteryFlow[hh] = Neg(charge)],
                   loc   |-> lc]
             ELSE [soc |-> soc, flows |-> fl, loc |-> lc]

\* part_002: the remainder of a positive net load comes from gas
GasStep002(prm, soc, fl, lc, hh) ==
    [soc   |-> soc,
     flows |-> IF Gt(lc.netLoad, Zero)
               THEN [fl EXCEPT !.gasFlow[hh] = lc.netLoad] ELSE fl,
     loc   |-> IF Gt(lc.netLoad, Zero) THEN [lc EXCEPT !.netLoad = Zero] ELSE lc]

\* part_004: solar of the hour and the deficit against it
SolarStep004(prm, profile, soc, fl, lc, hh) ==
    LET solarMWh == ClippedSolarMW(prm, profile, hh)
    IN  [soc   |-> soc,
         flows |-> fl,
         loc   |-> [solarMWh    |-> solarMWh,
                    deficit     |-> Sub(Demand, solarMWh),
                    batteryUsed |-> Zero,
                    solarExcess |-> Zero]]

\* part_004: discharge on a deficit, otherwise charge with the surplus
BatteryStep004(prm, soc, fl, lc, hh) ==
    IF Gt(lc.deficit, Zero)
    THEN LET batteryUsed == MathMin(lc.deficit, soc)
         IN  IF Gt(soc, Zero)
             THEN [soc   |-> Sub(soc, batteryUsed),
                   flows |-> fl,
                   loc   |-> [lc EXCEPT !.batteryUsed = batteryUsed,
                                        !.deficit = Sub(lc.deficit, batteryUsed)]]
             ELSE [soc |-> soc, flows |-> fl, loc |-> lc]
    ELSE LET solarExcess == MathAbs(lc.deficit)
             spaceInBattery == Sub(prm.batteryCapMWh, soc)
             batteryCharge == MathMin(solarExcess, spaceInBattery)
         IN  [soc   |-> Add(soc, batteryCharge),
              flows |-> fl,
              loc   |-> [lc EXCEPT !.deficit = Zero,
                                   !.solarExcess = Sub(solarExcess, batteryCharge)]]

\* part_004: gas for the remaining deficit, then the hour's results are stored
GasStep004(prm, soc, fl, lc, hh) ==
    LET gasUsed == IF Gt(lc.deficit, Zero) THEN lc.deficit ELSE Zero
    IN  [soc   |-> soc,
         flows |-> [fl EXCEPT !.solarGen[hh] = lc.solarMWh,
                              !.batteryGen[hh] = lc.batteryUsed,
                              !.gasGen[hh] = gasUsed],
         loc   |-> lc]


(***************************************************************************)
(* The loop as a whole: the body of one hour is its steps in sequence, and *)
(* the loop is the body applied to hours 0, 1, ... from batterySoC = 0 and *)
(* arrays of zeros.  socAfter keeps batterySoC as each hour left it.       *)
(***************************************************************************)
\* model.js: the body of the loop
HourAB(prm, profile, soc, fl, hh) ==
    LET a == SolarStepAB(prm, profile, soc, fl, None, hh)
        b == ChargeStepAB(prm, a.soc, a.flows, a.loc, hh)
        c == DischargeStepAB(prm, b.soc, b.flows, b.loc, hh)
    IN  GasStepAB(prm, c.soc, c.flows, c.loc, hh)

\* part_002: the body of the loop
Hour002(prm, profile, soc, fl, hh) ==
    LET a == SolarStep002(prm, profile, soc, fl, None, hh)
        b == BatteryStep002(prm, a.soc, a.flows, a.loc, hh)
    IN  GasStep002(prm, b.soc, b.flows, b.loc, hh)

\* part_004: the body of the loop
Hour004(prm, profile, soc, fl, hh) ==
    LET a == SolarStep004(prm, profile, soc, fl, None, hh)
        b == BatteryStep004(prm, a.soc, a.flows, a.loc, hh)
    IN  GasStep004(prm, b.soc, b.flows, b.loc, hh)

HourOf(v, prm, profile, soc, fl, hh) ==
    CASE v = "p002" -> Hour002(prm, profile, soc, fl, hh)
      [] v = "p004" -> Hour004(prm, profile, soc, fl, hh)
      [] OTHER -> HourAB(prm, profile, soc, fl, hh)

\* the loop of script v after its first n hours
RECURSIVE LoopOf(_, _, _, _)
LoopOf(v, prm, profile, n) ==
    IF n = 0
    THEN [soc      |-> Zero,
          flows    |-> [c \in Channels(v) |-> ZeroArray],
          socAfter |-> ZeroArray]
    ELSE LET before == LoopOf(v, prm, profile, n - 1)
             r == HourOf(v, prm, profile, before.soc, before.flows, n - 1)
         IN  [soc      |-> r.soc,
              flows    |-> r.flows,
              socAfter |-> [before.socAfter EXCEPT ![n - 1] = r.soc]]

(***************************************************************************)
(* Summaries                                                               *)
(***************************************************************************)
\* arr.reduce((a, b) => a + b, 0) over the first n entries
RECURSIVE SumFirst(_, _)
SumFirst(arr, n) ==
    IF n = 0 THEN Zero ELSE Add(SumFirst(arr, n - 1), arr[n - 1])

sumArray(arr) == SumFirst(arr, HOURS_PER_YEAR)

\* PositivePart keeping the negative (charging) entries
PositivePart_KeepsCharge(arr) == arr

\* batteryFlow.map(x => (x > 0 ? x : 0))
PositivePart(arr) == [i \in DOMAIN arr |-> IF Gt(arr[i], Zero) THEN arr[i] ELSE Zero]

\* HOURS_PER_YEAR * 1000
TotalDemandMWh == Int2Num(HOURS_PER_YEAR * 1000)

SummariesAB(fl) ==
    [totalSolarUsed        |-> sumArray(fl.solarUsedFlow),
     totalBatteryDischarge |-> sumArray(PositivePart(fl.batteryFlow)),
     totalGasMWh           |-> sumArray(fl.gasFlow),
     totalCurtailed        |-> sumArray(fl.solarCurtailedFlow),
     totalSolarGen         |-> sumArray(fl.totalSolarFlow),
     totalDemandMWh        |-> TotalDemandMWh]

Summaries000(fl) ==
    [totalSolarMWh   |-> sumArray(fl.solarUsed),
     totalBatteryMWh |-> sumArray(fl.batteryOut),
     totalGasMWh     |-> sumArray(fl.gasOut),
     totalDemandMWh  |-> TotalDemandMWh]

Summaries001(fl) ==
    [totalSolarUsedMWh        |-> sumArray(fl.solarUsed),
     totalBatteryDischargeMWh |-> sumArray(fl.batteryOut),
     totalGasMWh              |-> sumArray(fl.gasUsed),
     totalDemandMWh           |-> TotalDemandMWh]

Summaries002(fl) ==
    [totalSolarMWh            |-> sumArray(fl.solarFlow),
     totalBatteryDischargeMWh |-> sumArray(PositivePart(fl.batteryFlow)),
     totalGasMWh              |-> sumArray(fl.gasFlow),
     totalDemandMWh           |-> TotalDemandMWh]

Summaries004(fl) ==
    [totalSolarMWh   |-> sumArray(fl.solarGen),
     totalBatteryMWh |-> sumArray(fl.batteryGen),
     totalGasMWh     |-> sumArray(fl.gasGen),
     totalDemandMWh  |-> Add(Add(sumArray(fl.solarGen), sumArray(fl.batteryGen)),
                             sumArray(fl.gasGen))]

(***************************************************************************)
(* Levelized cost.  Each operator takes the constants of the run (prm) and *)
(* the sums after the loop (tot) and returns the cost results of the run.  *)
(***************************************************************************)
\* Lifetime of the battery in calcCRF(waccRenew, 25).  The source fixes 25;
\* the model uses a lifetime whose power of 1 + rate is held exactly.
BATTERY_LIFETIME == 2

GasCapMW == Int2Num(1000)

\* calcCRF without the branch for a rate of 0
calcCRF_NoZeroBranch(rate, years) ==
    Div(Mul(rate, MathPow(Add(Int2Num(1), rate), years)),
        Sub(MathPow(Add(Int2Num(1), rate), years), Int2Num(1)))

\* Capital Recovery Factor
calcCRF(rate, years) ==
    IF rate = Zero THEN Div(Int2Num(1), years)
    ELSE LET top == Mul(rate, MathPow(Add(Int2Num(1), rate), years))
             bot == Sub(MathPow(Add(Int2Num(1), rate), years), Int2Num(1))
         IN  Div(top, bot)

\* Lcoe without the test of the energy
Lcoe_Unguarded(cost, energy) == Div(cost, energy)

\* (energy > 0) ? cost / energy : 0
Lcoe(cost, energy) == IF Gt(energy, Zero) THEN Div(cost, energy) ELSE Zero

\* AnnualCapex with the factor left out
AnnualCapex_NoFactor(capexTotal, crf) == capexTotal

\* capexTotal * crf
AnnualCapex(capexTotal, crf) == Mul(capexTotal, crf)

\* AnnualFixedOM charging the rate once, whatever the capacity
AnnualFixedOM_PerUnit(capacity, rate) == rate

\* capacity * fixed O&M rate
AnnualFixedOM(capacity, rate) == Mul(capacity, rate)

\* SystemLcoe over the energy that gas delivered
SystemLcoe_OverGas(totalAnnualCost, tot) == Div(totalAnnualCost, tot.totalGasMWh)

\* totalAnnualCost / totalDemandMWh
SystemLcoe(totalAnnualCost, tot) == Div(totalAnnualCost, tot.totalDemandMWh)

\* cost / (energy || 1): the figures of the breakdown chart, with the
\* divisor at 1 when there is no energy
PerMWhOrOne(cost, energy) == Div(cost, OrElse(energy, Int2Num(1)))

\* model.js, first script
CostsA(prm, tot) ==
    LET gasCapexTotal == Mul(Mul(GasCapMW, Thousand), prm.gasCapex)
        crfGas == calcCRF(prm.waccFossil, prm.lifetimeFossil)
        gasAnnualCapex == AnnualCapex(gasCapexTotal, crfGas)
        gasAnnualFixedOM == AnnualFixedOM(GasCapMW, prm.gasFixedOM)
        gasAnnualVarOM == Mul(tot.totalGasMWh, prm.gasVarOM)
        gasFuelConsumed ==
            IF Gt(prm.gasEfficiency, Zero)
            THEN Div(tot.totalGasMWh, prm.gasEfficiency) ELSE Zero
        gasAnnualFuel == Mul(gasFuelConsumed, prm.gasFuel)
        gasAnnualCost ==
            Add(Add(Add(gasAnnualCapex, gasAnnualFixedOM), gasAnnualVarOM),
                gasAnnualFuel)
        solarCapexTotal == Mul(Mul(prm.solarCapMW, Thousand), prm.solarCapex)
        crfSolar == calcCRF(prm.waccRenew, prm.lifetimeSolar)
        solarAnnualCapex == AnnualCapex(solarCapexTotal, crfSolar)
        solarAnnualFixedOM == AnnualFixedOM(prm.solarCapMW, prm.solarFixedOM)
        solarAnnualCost == Add(solarAnnualCapex, solarAnnualFixedOM)
        batteryCapexTotal == Mul(Mul(prm.batteryCapMWh, Thousand), prm.batteryCapex)
        crfBattery == calcCRF(prm.waccRenew, Int2Num(BATTERY_LIFETIME))
        batteryAnnualCapex == AnnualCapex(batteryCapexTotal, crfBattery)
        batteryMW == Div(prm.batteryCapMWh, Int2Num(4))
        batteryAnnualFixedOM == AnnualFixedOM(batteryMW, prm.batteryFixedOM)
        batteryAnnualCost == Add(batteryAnnualCapex, batteryAnnualFixedOM)
        totalAnnualCost ==
            Add(Add(gasAnnualCost, solarAnnualCost), batteryAnnualCost)
    IN  [gasCapexTotal        |-> gasCapexTotal,
         gasAnnualCapex       |-> gasAnnualCapex,
         gasAnnualFixedOM     |-> gasAnnualFixedOM,
         gasAnnualVarOM       |-> gasAnnualVarOM,
         gasAnnualFuel        |-> gasAnnualFuel,
         gasAnnualCost        |-> gasAnnualCost,
         gasLcoe              |-> Lcoe(gasAnnualCost, tot.totalGasMWh),
         solarCapexTotal      |-> solarCapexTotal,
         solarAnnualCapex     |-> solarAnnualCapex,
         solarAnnualFixedOM   |-> solarAnnualFixedOM,
         solarAnnualCost      |-> solarAnnualCost,
         solarLcoe            |-> Lcoe(solarAnnualCost, tot.totalSolarUsed),
         batteryCapexTotal    |-> batteryCapexTotal,
         batteryAnnualCapex   |-> batteryAnnualCapex,
         batteryAnnualFixedOM |-> batteryAnnualFixedOM,
         batteryAnnualCost    |-> batteryAnnualCost,
         batteryLcoe          |-> Lcoe(batteryAnnualCost, tot.totalBatteryDischarge),
         totalAnnualCost      |-> totalAnnualCost,
         systemLcoe           |-> SystemLcoe(totalAnnualCost, tot),
         breakdown            |->
            [gasCapex     |-> PerMWhOrOne(gasAnnualCapex, tot.totalGasMWh),
             gasOpex      |->
                PerMWhOrOne(Add(Add(gasAnnualFixedOM, gasAnnualVarOM),
                                gasAnnualFuel),
                            tot.totalGasMWh),
             solarCapex   |-> PerMWhOrOne(solarAnnualCapex, tot.totalSolarUsed),
             solarOpex    |-> PerMWhOrOne(solarAnnualFixedOM, tot.totalSolarUsed),
             batteryCapex |->
                PerMWhOrOne(batteryAnnualCapex, tot.totalBatteryDischarge),
             batteryOpex  |->
                PerMWhOrOne(batteryAnnualFixedOM, tot.totalBatteryDischarge)]]

\* model.js, second script: no test of the efficiency, every levelized
\* figure over the total demand
CostsB(prm, tot) ==
    LET gasCapexTotal == Mul(Mul(GasCapMW, Thousand), prm.gasCapex)
        crfGas == calcCRF(prm.waccFossil, prm.lifetimeFossil)
        gasAnnualCapex == AnnualCapex(gasCapexTotal, crfGas)
        gasAnnualFixedOM == AnnualFixedOM(GasCapMW, prm.gasFixedOM)
        gasAnnualVarOM == Mul(tot.totalGasMWh, prm.gasVarOM)
        gasFuelConsumed == Div(tot.totalGasMWh, prm.gasEfficiency)
        gasAnnualFuel == Mul(gasFuelConsumed, prm.gasFuel)
        gasAnnualCost ==
            Add(Add(Add(gasAnnualCapex, gasAnnualFixedOM), gasAnnualVarOM),
                gasAnnualFuel)
        solarCapexTotal == Mul(Mul(prm.solarCapMW, Thousand), prm.solarCapex)
        crfSolar == calcCRF(prm.waccRenew, prm.lifetimeSolar)
        solarAnnualCapex == AnnualCapex(solarCapexTotal, crfSolar)
        solarAnnualFixedOM == AnnualFixedOM(prm.solarCapMW, prm.solarFixedOM)
        solarAnnualCost == Add(solarAnnualCapex, solarAnnualFixedOM)
        batteryCapexTotal == Mul(Mul(prm.batteryCapMWh, Thousand), prm.batteryCapex)
        crfBattery == calcCRF(prm.waccRenew, Int2Num(BATTERY_LIFETIME))
        batteryAnnualCapex == AnnualCapex(batteryCapexTotal, crfBattery)
        batteryMW == Div(prm.batteryCapMWh, Int2Num(4))
        batteryAnnualFixedOM == AnnualFixedOM(batteryMW, prm.batteryFixedOM)
        batteryAnnualCost == Add(batteryAnnualCapex, batteryAnnualFixedOM)
        totalAnnualCost ==
            Add(Add(gasAnnualCost, solarAnnualCost), batteryAnnualCost)
        gasCapexLcoe == Div(gasAnnualCapex, tot.totalDemandMWh)
        gasOpexLcoe ==
            Div(Add(Add(gasAnnualFixedOM, gasAnnualVarOM), gasAnnualFuel),
                tot.totalDemandMWh)
        solarCapexLcoe == Div(solarAnnualCapex, tot.totalDemandMWh)
        solarOpexLcoe == Div(solarAnnualFixedOM, tot.totalDemandMWh)
        batteryCapexLcoe == Div(batteryAnnualCapex, tot.totalDemandMWh)
        batteryOpexLcoe == Div(batteryAnnualFixedOM, tot.totalDemandMWh)
        gasTotalLcoe == Add(gasCapexLcoe, gasOpexLcoe)
        solarTotalLcoe == Add(solarCapexLcoe, solarOpexLcoe)
        batteryTotalLcoe == Add(batteryCapexLcoe, batteryOpexLcoe)
    IN  [gasCapexTotal        |-> gasCapexTotal,
         gasAnnualCapex       |-> gasAnnualCapex,
         gasAnnualFixedOM     |-> gasAnnualFixedOM,
         gasAnnualVarOM       |-> gasAnnualVarOM,
         gasAnnualFuel        |-> gasAnnualFuel,
         gasAnnualCost        |-> gasAnnualCost,
         solarCapexTotal      |-> solarCapexTotal,
         solarAnnualCapex     |-> solarAnnualCapex,
         solarAnnualFixedOM   |-> solarAnnualFixedOM,
         solarAnnualCost      |-> solarAnnualCost,
         batteryCapexTotal    |-> batteryCapexTotal,
         batteryAnnualCapex   |-> batteryAnnualCapex,
         batteryAnnualFixedOM |-> batteryAnnualFixedOM,
         batteryAnnualCost    |-> batteryAnnualCost,
         totalAnnualCost      |-> totalAnnualCost,
         levelizedSystemCost  |-> SystemLcoe(totalAnnualCost, tot),
         gasCapexLcoe         |-> gasCapexLcoe,
         gasOpexLcoe          |-> gasOpexLcoe,
         solarCapexLcoe       |-> solarCapexLcoe,
         solarOpexLcoe        |-> solarOpexLcoe,
         batteryCapexLcoe     |-> batteryCapexLcoe,
         batteryOpexLcoe      |-> batteryOpexLcoe,
         systemTotal          |->
            Add(Add(gasTotalLcoe, solarTotalLcoe), batteryTotalLcoe)]

\* part_000: the fuel cost (gasFuelCost in the source) has no test of the
\* efficiency; the variable cost is gasVarCost in the source
Costs000(prm, tot) ==
    LET gasCapexTotal == Mul(Mul(GasCapMW, Thousand), prm.gasCapex)
        crfGas == calcCRF(prm.waccFossil, prm.lifetimeFossil)
        gasAnnualCapex == AnnualCapex(gasCapexTotal, crfGas)
        gasAnnualFixedOM == AnnualFixedOM(GasCapMW, prm.gasFixedOM)
        gasAnnualFuel == Mul(Div(tot.totalGasMWh, prm.gasEfficiency), prm.gasFuel)
        gasAnnualVarOM == Mul(tot.totalGasMWh, prm.gasVarOM)
        gasAnnualCost ==
            Add(Add(Add(gasAnnualCapex, gasAnnualFixedOM), gasAnnualFuel),
                gasAnnualVarOM)
        solarCapexTotal == Mul(Mul(prm.solarCapMW, Thousand), prm.solarCapex)
        crfSolar == calcCRF(prm.waccRenew, prm.lifetimeSolar)
        solarAnnualCapex == AnnualCapex(solarCapexTotal, crfSolar)
        solarAnnualFixedOM == AnnualFixedOM(prm.solarCapMW, prm.solarFixedOM)
        solarAnnualCost == Add(solarAnnualCapex, solarAnnualFixedOM)
        batteryCapexTotal == Mul(Mul(prm.batteryCapMWh, Thousand), prm.batteryCapex)
        crfBattery == calcCRF(prm.waccRenew, Int2Num(BATTERY_LIFETIME))
        batteryAnnualCapex == AnnualCapex(batteryCapexTotal, crfBattery)
        batteryMW == Div(prm.batteryCapMWh, Int2Num(4))
        batteryAnnualFixedOM == AnnualFixedOM(batteryMW, prm.batteryFixedOM)
        batteryAnnualCost == Add(batteryAnnualCapex, batteryAnnualFixedOM)
        totalAnnualCost ==
            Add(Add(gasAnnualCost, solarAnnualCost), batteryAnnualCost)
    IN  [gasCapexTotal        |-> gasCapexTotal,
         gasAnnualCapex       |-> gasAnnualCapex,
         gasAnnualFixedOM     |-> gasAnnualFixedOM,
         gasAnnualVarOM       |-> gasAnnualVarOM,
         gasAnnualFuel        |-> gasAnnualFuel,
         gasAnnualCost        |-> gasAnnualCost,
         gasLcoe              |-> Lcoe(gasAnnualCost, tot.totalGasMWh),
         solarCapexTotal      |-> solarCapexTotal,
         solarAnnualCapex     |-> solarAnnualCapex,
         solarAnnualFixedOM   |-> solarAnnualFixedOM,
         solarAnnualCost      |-> solarAnnualCost,
         solarLcoe            |-> Lcoe(solarAnnualCost, tot.totalSolarMWh),
         batteryCapexTotal    |-> batteryCapexTotal,
         batteryAnnualCapex   |-> batteryAnnualCapex,
         batteryAnnualFixedOM |-> batteryAnnualFixedOM,
         batteryAnnualCost    |-> batteryAnnualCost,
         batteryLcoe          |-> Lcoe(batteryAnnualCost, tot.totalBatteryMWh),
         totalAnnualCost      |-> totalAnnualCost,
         systemLcoe           |-> SystemLcoe(totalAnnualCost, tot)]

\* part_001: the fuel cost is the gas energy times the fuel price
Costs001(prm, tot) ==
    LET gasCapexTotal == Mul(Mul(GasCapMW, Thousand), prm.gasCapex)
        crfGas == calcCRF(prm.waccFossil, prm.lifetimeFossil)
        gasAnnualCapex == AnnualCapex(gasCapexTotal, crfGas)
        gasAnnualFixedOM == AnnualFixedOM(GasCapMW, prm.gasFixedOM)
        gasAnnualVarOM == Mul(tot.totalGasMWh, prm.gasVarOM)
        gasAnnualFuel == Mul(tot.totalGasMWh, prm.gasFuel)
        gasAnnualCost ==
            Add(Add(Add(gasAnnualCapex, gasAnnualFixedOM), gasAnnualVarOM),
                gasAnnualFuel)
        solarCapexTotal == Mul(Mul(prm.solarCapMW, Thousand), prm.solarCapex)
        crfSolar == calcCRF(prm.waccRenew, prm.lifetimeSolar)
        solarAnnualCapex == AnnualCapex(solarCapexTotal, crfSolar)
        solarAnnualFixedOM == AnnualFixedOM(prm.solarCapMW, prm.solarFixedOM)
        solarAnnualCost == Add(solarAnnualCapex, solarAnnualFixedOM)
        batteryCapexTotal == Mul(Mul(prm.batteryCapMWh, Thousand), prm.batteryCapex)
        crfBattery == calcCRF(prm.waccRenew, Int2Num(BATTERY_LIFETIME))
        batteryAnnualCapex == AnnualCapex(batteryCapexTotal, crfBattery)
        batteryMW == Div(prm.batteryCapMWh, Int2Num(4))
        batteryAnnualFixedOM == AnnualFixedOM(batteryMW, prm.batteryFixedOM)
        batteryAnnualCost == Add(batteryAnnualCapex, batteryAnnualFixedOM)
        totalAnnualCost ==
            Add(Add(gasAnnualCost, solarAnnualCost), batteryAnnualCost)
    IN  [gasCapexTotal        |-> gasCapexTotal,
         gasAnnualCapex       |-> gasAnnualCapex,
         gasAnnualFixedOM     |-> gasAnnualFixedOM,
         gasAnnualVarOM       |-> gasAnnualVarOM,
         gasAnnualFuel        |-> gasAnnualFuel,
         gasAnnualCost        |-> gasAnnualCost,
         gasLcoe              |-> Lcoe(gasAnnualCost, tot.totalGasMWh),
         solarCapexTotal      |-> solarCapexTotal,
         solarAnnualCapex     |-> solarAnnualCapex,
         solarAnnualFixedOM   |-> solarAnnualFixedOM,
         solarAnnualCost      |-> solarAnnualCost,
         solarLcoe            |-> Lcoe(solarAnnualCost, tot.totalSolarUsedMWh),
         batteryCapexTotal    |-> batteryCapexTotal,
         batteryAnnualCapex   |-> batteryAnnualCapex,
         batteryAnnualFixedOM |-> batteryAnnualFixedOM,
         batteryAnnualCost    |-> batteryAnnualCost,
         batteryLcoe          |-> Lcoe(batteryAnnualCost, tot.totalBatteryDischargeMWh),
         totalAnnualCost      |-> totalAnnualCost,
         systemLcoe           |-> SystemLcoe(totalAnnualCost, tot)]

\* part_002: the fuel cost without the efficiency, and the solar figure over
\* all the clipped solar of the year
Costs002(prm, tot) ==
    LET gasCapexTotal == Mul(Mul(GasCapMW, Thousand), prm.gasCapex)
        crfGas == calcCRF(prm.waccFossil, prm.lifetimeFossil)
        gasAnnualCapex == AnnualCapex(gasCapexTotal, crfGas)
        gasAnnualFixedOM == AnnualFixedOM(GasCapMW, prm.gasFixedOM)
        gasAnnualVarOM == Mul(tot.totalGasMWh, prm.gasVarOM)
        gasAnnualFuel == Mul(tot.totalGasMWh, prm.gasFuel)
        gasAnnualCost ==
            Add(Add(Add(gasAnnualCapex, gasAnnualFixedOM), gasAnnualVarOM),
                gasAnnualFuel)
        solarCapexTotal == Mul(Mul(prm.solarCapMW, Thousand), prm.solarCapex)
        crfSolar == calcCRF(prm.waccRenew, prm.lifetimeSolar)
        solarAnnualCapex == AnnualCapex(solarCapexTotal, crfSolar)
        solarAnnualFixedOM == AnnualFixedOM(prm.solarCapMW, prm.solarFixedOM)
        solarAnnualCost == Add(solarAnnualCapex, solarAnnualFixedOM)
        batteryCapexTotal == Mul(Mul(prm.batteryCapMWh, Thousand), prm.batteryCapex)
        crfBattery == calcCRF(prm.waccRenew, Int2Num(BATTERY_LIFETIME))
        batteryAnnualCapex == AnnualCapex(batteryCapexTotal, crfBattery)
        batteryMW == Div(prm.batteryCapMWh, Int2Num(4))
        batteryAnnualFixedOM == AnnualFixedOM(batteryMW, prm.batteryFixedOM)
        batteryAnnualCost == Add(batteryAnnualCapex, batteryAnnualFixedOM)
        totalAnnualCost ==
            Add(Add(gasAnnualCost, solarAnnualCost), batteryAnnualCost)
    IN  [gasCapexTotal        |-> gasCapexTotal,
         gasAnnualCapex       |-> gasAnnualCapex,
         gasAnnualFixedOM     |-> gasAnnualFixedOM,
         gasAnnualVarOM       |-> gasAnnualVarOM,
         gasAnnualFuel        |-> gasAnnualFuel,
         gasAnnualCost        |-> gasAnnualCost,
         gasLcoe              |-> Lcoe(gasAnnualCost, tot.totalGasMWh),
         solarCapexTotal      |-> solarCapexTotal,
         solarAnnualCapex     |-> solarAnnualCapex,
         solarAnnualFixedOM   |-> solarAnnualFixedOM,
         solarAnnualCost      |-> solarAnnualCost,
         solarLcoe            |-> Lcoe(solarAnnualCost, tot.totalSolarMWh),
         batteryCapexTotal    |-> batteryCapexTotal,
         batteryAnnualCapex   |-> batteryAnnualCapex,
         batteryAnnualFixedOM |-> batteryAnnualFixedOM,
         batteryAnnualCost    |-> batteryAnnualCost,
         batteryLcoe          |-> Lcoe(batteryAnnualCost, tot.totalBatteryDischargeMWh),
         totalAnnualCost      |-> totalAnnualCost,
         systemLcoe           |-> SystemLcoe(totalAnnualCost, tot)]

\* part_004, first script: capacities in MW times costs per kW, the battery
\* annualised over lifetimeSolar, the fuel cost without the efficiency, and
\* every levelized figure over the mean hourly energy
Costs004(prm, tot) ==
    LET solarCapexTotal == Mul(prm.solarCapMW, prm.solarCapex)
        gasCapexTotal == Mul(GasCapMW, prm.gasCapex)
        batteryCapexTotal == Mul(prm.batteryCapMWh, prm.batteryCapex)
        gasFixedOMTotal == AnnualFixedOM(GasCapMW, prm.gasFixedOM)
        solarFixedOMTotal == AnnualFixedOM(prm.solarCapMW, prm.solarFixedOM)
        batteryMW == Div(prm.batteryCapMWh, Int2Num(4))
        batteryFixedOMTotal == AnnualFixedOM(batteryMW, prm.batteryFixedOM)
        totalGasFuelCost == Mul(tot.totalGasMWh, prm.gasFuel)
        totalGasVarOMCost == Mul(tot.totalGasMWh, prm.gasVarOM)
        crfGas == calcCRF(prm.waccFossil, prm.lifetimeFossil)
        crfSolar == calcCRF(prm.waccRenew, prm.lifetimeSolar)
        crfBattery == calcCRF(prm.waccRenew, prm.lifetimeSolar)
        gasAnnualCapex == AnnualCapex(gasCapexTotal, crfGas)
        solarAnnualCapex == AnnualCapex(solarCapexTotal, crfSolar)
        batteryAnnualCapex == AnnualCapex(batteryCapexTotal, crfBattery)
        gasAnnualCost ==
            Add(Add(Add(gasAnnualCapex, gasFixedOMTotal), totalGasFuelCost),
                totalGasVarOMCost)
        solarAnnualCost == Add(solarAnnualCapex, solarFixedOMTotal)
        batteryAnnualCost == Add(batteryAnnualCapex, batteryFixedOMTotal)
        perHour(e) == Div(e, Int2Num(HOURS_PER_YEAR))
        totalAnnualCost ==
            Add(Add(gasAnnualCost, solarAnnualCost), batteryAnnualCost)
    IN  [gasCapexTotal        |-> gasCapexTotal,
         gasAnnualCapex       |-> gasAnnualCapex,
         gasAnnualFixedOM     |-> gasFixedOMTotal,
         gasAnnualVarOM       |-> totalGasVarOMCost,
         gasAnnualFuel        |-> totalGasFuelCost,
         gasAnnualCost        |-> gasAnnualCost,
         gasLcoe              |->
            IF Gt(tot.totalGasMWh, Zero)
            THEN Div(gasAnnualCost, perHour(tot.totalGasMWh)) ELSE Zero,
         solarCapexTotal      |-> solarCapexTotal,
         solarAnnualCapex     |-> solarAnnualCapex,
         solarAnnualFixedOM   |-> solarFixedOMTotal,
         solarAnnualCost      |-> solarAnnualCost,
         solarLcoe            |->
            IF Gt(tot.totalSolarMWh, Zero)
            THEN Div(solarAnnualCost, perHour(tot.totalSolarMWh)) ELSE Zero,
         batteryCapexTotal    |-> batteryCapexTotal,
         batteryAnnualCapex   |-> batteryAnnualCapex,
         batteryAnnualFixedOM |-> batteryFixedOMTotal,
         batteryAnnualCost    |-> batteryAnnualCost,
         batteryLcoe          |->
            IF Gt(tot.totalBatteryMWh, Zero)
            THEN Div(batteryAnnualCost, perHour(tot.totalBatteryMWh)) ELSE Zero,
         totalAnnualCost      |-> totalAnnualCost,
         systemLcoe           |-> Div(totalAnnualCost, perHour(tot.totalDemandMWh))]

\* the cost results of a run of script v
Costs(v, prm, tot) ==
    CASE v = "modelA" -> CostsA(prm, tot)
      [] v = "modelB" -> CostsB(prm, tot)
      [] v = "p000"   -> Costs000(prm, tot)
      [] v = "p001"   -> Costs001(prm, tot)
      [] v = "p002"   -> Costs002(prm, tot)
      [] v = "p004"   -> Costs004(prm, tot)

(***************************************************************************)
(* Actions                                                                 *)
(***************************************************************************)
IsModelJs == variant \in {"modelA", "modelB"}

\* the scripts whose load callback calls runModel
RunsOnLoad == variant \in {"modelA", "modelB", "p001", "p002"}

\* the complete callback of Papa.parse
LoadComplete ==
    /\ pc = "idle"
    /\ ~loaded
    /\ solarProfile' = [i \in 1..Len(csvRows) |-> CellOrZero(csvRows[i])]
    /\ loaded' = TRUE
    /\ listener' = (variant = "p000")
    /\ pc' = IF RunsOnLoad THEN "read" ELSE "idle"
    /\ UNCHANGED <<variant, fields, csvRows, params, h, batterySoC, flows, loc,
                   totals, alerted, costs, read, prev, edits, crfVars>>

\* a click on the button of the page that calls runModel
ClickUpdate ==
    /\ pc \in {"idle", "done"}
    /\ IF variant = "p000" THEN listener ELSE loaded
    /\ pc' = "read"
    /\ UNCHANGED <<variant, fields, csvRows, solarProfile, loaded, listener,
                   params, h, batterySoC, flows, loc, totals, alerted, costs,
                   read, prev, edits, crfVars>>

\* How many edits of a field a page is followed through.
MaxEdits == 1

\* the fields the user edits between runs, and the texts typed into them
EditedFields == {"gasEfficiency", "lifetimeFossil", "lifetimeSolar"}

EditTexts == {"1", "2"}

\* The user types a new text into a field while no run is in progress.
\* Edits are followed on the pages loaded with PlainCsv.
EditField ==
    /\ pc \in {"idle", "done"}
    /\ loaded
    /\ csvRows = PlainCsv
    /\ edits < MaxEdits
    /\ \E f \in EditedFields, t \in EditTexts :
          /\ t # fields[f]
          /\ fields' = [fields EXCEPT ![f] = t]
    /\ edits' = edits + 1
    /\ UNCHANGED <<variant, csvRows, solarProfile, loaded, listener, pc, params,
                   h, batterySoC, flows, loc, totals, alerted, costs, read,
                   prev, crfVars>>

\* LengthGuardFails without the test of the length
LengthGuardFails_Never == FALSE

\* part_000 leaves the run when the profile is short
LengthGuardFails == variant = "p000" /\ Len(solarProfile) < HOURS_PER_YEAR

\* Begin with the state of charge left as the run before ended it
Begin_KeepsSoC ==
    /\ pc = "read"
    /\ params' = ReadInputs(variant, fields)
    /\ read' = fields
    /\ prev' = IF DOMAIN costs # {}
               THEN [fields |-> read, flows |-> flows, totals |-> totals,
                     costs |-> costs]
               ELSE prev
    /\ IF LengthGuardFails
       THEN /\ alerted' = TRUE
            /\ pc' = "done"
            /\ UNCHANGED <<h, batterySoC, flows, loc>>
       ELSE /\ alerted' = FALSE
            /\ pc' = "solar"
            /\ h' = 0
            /\ batterySoC' = batterySoC
            /\ flows' = [c \in Channels(variant) |-> ZeroArray]
            /\ loc' = None
    /\ UNCHANGED <<variant, fields, csvRows, solarProfile, loaded, listener,
                   totals, costs, edits, crfVars>>

\* runModel up to the loop: the inputs are read and the arrays allocated.
\* prev keeps, for the properties, what the run before this one produced.
Begin ==
    /\ pc = "read"
    /\ params' = ReadInputs(variant, fields)
    /\ read' = fields
    /\ prev' = IF DOMAIN costs # {}
               THEN [fields |-> read, flows |-> flows, totals |-> totals,
                     costs |-> costs]
               ELSE prev
    /\ IF LengthGuardFails
       THEN /\ alerted' = TRUE
            /\ pc' = "done"
            /\ UNCHANGED <<h, batterySoC, flows, loc>>
       ELSE /\ alerted' = FALSE
            /\ pc' = "solar"
            /\ h' = 0
            /\ batterySoC' = Zero
            /\ flows' = [c \in Channels(variant) |-> ZeroArray]
            /\ loc' = None
    /\ UNCHANGED <<variant, fields, csvRows, solarProfile, loaded, listener,
                   totals, costs, edits, crfVars>>

\* the state after a step of the loop body
Step(r, next) ==
    /\ batterySoC' = r.soc
    /\ flows' = r.flows
    /\ loc' = r.loc
    /\ pc' = next
    /\ UNCHANGED <<variant, fields, csvRows, solarProfile, loaded, listener,
                   params, totals, alerted, costs, read, prev, edits, crfVars>>

HourSolar ==
    /\ pc = "solar"
    /\ h' = h
    /\ CASE variant \in {"p000", "p001"} ->
              Step(SolarStep000(params, solarProfile, batterySoC, flows, loc, h),
                   "charge")
         [] variant = "p002" ->
              Step(SolarStep002(params, solarProfile, batterySoC, flows, loc, h),
                   "battery")
         [] variant = "p004" ->
              Step(SolarStep004(params, solarProfile, batterySoC, flows, loc, h),
                   "battery")
         [] OTHER ->
              Step(SolarStepAB(params, solarProfile, batterySoC, flows, loc, h),
                   "charge")

HourCharge ==
    /\ pc = "charge"
    /\ h' = h
    /\ IF variant \in {"p000", "p001"}
       THEN Step(ChargeStep000(params, batterySoC, flows, loc, h), "discharge")
       ELSE Step(ChargeStepAB(params, batterySoC, flows, loc, h), "discharge")

HourDischarge ==
    /\ pc = "discharge"
    /\ h' = h
    /\ IF variant \in {"p000", "p001"}
       THEN Step(DischargeStep000(params, batterySoC, flows, loc, h), "gas")
       ELSE Step(DischargeStepAB(params, batterySoC, flows, loc, h), "gas")

HourBattery ==
    /\ pc = "battery"
    /\ h' = h
    /\ IF variant = "p002"
       THEN Step(BatteryStep002(params, batterySoC, flows, loc, h), "gas")
       ELSE Step(BatteryStep004(params, batterySoC, flows, loc, h), "gas")

\* the last step of the body, then h++ and the loop test
HourGas ==
    /\ pc = "gas"
    /\ h' = h + 1
    /\ LET next == IF h + 1 < HOURS_PER_YEAR THEN "solar" ELSE "sum"
       IN  CASE variant = "p000" ->
                  Step(GasStep000(params, batterySoC, flows, loc, h), next)
             [] variant = "p001" ->
                  Step(GasStep001(params, batterySoC, flows, loc, h), next)
             [] variant = "p002" ->
                  Step(GasStep002(params, batterySoC, flows, loc, h), next)
             [] variant = "p004" ->
                  Step(GasStep004(params, batterySoC, flows, loc, h), next)
             [] OTHER ->
                  Step(GasStepAB(params, batterySoC, flows, loc, h), next)

\* the sums after the loop
Summaries(v, fl) ==
    CASE v = "p000" -> Summaries000(fl)
      [] v = "p001" -> Summaries001(fl)
      [] v = "p002" -> Summaries002(fl)
      [] v = "p004" -> Summaries004(fl)
      [] OTHER -> SummariesAB(fl)

\* runModel after the loop: the sums, then the costs
Summarise ==
    /\ pc = "sum"
    /\ totals' = Summaries(variant, flows)
    /\ costs' = Costs(variant, params, Summaries(variant, flows))
    /\ pc' = "done"
    /\ UNCHANGED <<variant, fields, csvRows, solarProfile, loaded, listener,
                   params, h, batterySoC, flows, loc, alerted, read, prev,
                   edits, crfVars>>

Next ==
    \/ LoadComplete
    \/ ClickUpdate
    \/ EditField
    \/ Begin
    \/ HourSolar
    \/ HourCharge
    \/ HourDischarge
    \/ HourBattery
    \/ HourGas
    \/ Summarise

Spec == Init /\ [][Next]_vars

(***************************************************************************)
(* calcCRF on its own: one rate and two lifetimes are drawn, and the       *)
(* function is applied to the rate with each lifetime.                     *)
(***************************************************************************)
CrfRates == {Zero, <<1, 100>>, <<1, 20>>, <<1, 2>>, Int2Num(1), Int2Num(2)}

CrfYears == {Int2Num(1), Int2Num(2), Int2Num(3), Int2Num(20), Int2Num(1024)}

InitCRF ==
    /\ crfArgs \in [rate : CrfRates, n1 : CrfYears, n2 : CrfYears]
    /\ crfOut = None
    /\ variant = "modelA"
    /\ fields = BaseFields
    /\ csvRows = PlainCsv
    /\ solarProfile = <<>>
    /\ loaded = FALSE
    /\ listener = FALSE
    /\ pc = "idle"
    /\ params = None
    /\ h = 0
    /\ batterySoC = Zero
    /\ flows = None
    /\ loc = None
    /\ totals = None
    /\ alerted = FALSE
    /\ costs = None
    /\ read = None
    /\ prev = None
    /\ edits = 0

CallCRF ==
    /\ crfOut = None
    /\ crfOut' = [v1 |-> calcCRF(crfArgs.rate, crfArgs.n1),
                  v2 |-> calcCRF(crfArgs.rate, crfArgs.n2)]
    /\ UNCHANGED <<variant, fields, csvRows, solarProfile, loaded, listener,
                   pc, params, h, batterySoC, flows, loc, totals, alerted,
                   costs, read, prev, edits, crfArgs>>

NextCRF == CallCRF

SpecCRF == InitCRF /\ [][NextCRF]_vars


(***************************************************************************)
(* Vocabulary of the properties                                            *)
(***************************************************************************)
\* the arrays of the run exist (runModel is past its allocations)
HasFlows == DOMAIN flows # {}

\* the loaded profile has an entry, a number, for every hour
FullProfile == Len(solarProfile) = HOURS_PER_YEAR

\* the hours whose iteration has ended
DoneHours == {k \in Hours : k < h}

\* == on numbers: never true of NaN
NumEq(x, y) == ~IsNaN(x) /\ ~IsNaN(y) /\ x = y

\* x > 0 ? x : 0
PosPart(x) == IF Gt(x, Zero) THEN x ELSE Zero

\* battery discharge of hour k: the positive part of batteryFlow[k]
DischargeOf(k) == PosPart(flows.batteryFlow[k])

\* battery charge of hour k: the magnitude of a negative batteryFlow[k]
ChargeOf(k) == PosPart(Neg(flows.batteryFlow[k]))

\* available solar of hour k, after clipping
AvailableSolar(k) == ClippedSolarMW(params, solarProfile, k)

\* the profile is 0 in every hour of the year
ZeroProfile == FullProfile /\ \A i \in 1..Len(solarProfile) : solarProfile[i] = NumV(Zero)

(***************************************************************************)
(* C1  Energy balance on the load side.  In both scripts of model.js, with *)
(* a profile that holds a number for every hour, every finished hour has   *)
(* solar used + battery discharge + gas output equal to the demand, 1000,  *)
(* whatever the input fields hold.                                         *)
(***************************************************************************)
C1_LoadBalance ==
    (IsModelJs /\ HasFlows /\ FullProfile) =>
        \A k \in DoneHours :
            NumEq(Add(Add(flows.solarUsedFlow[k], DischargeOf(k)), flows.gasFlow[k]),
                  Demand)

\* a finished run in which one hour is served by solar, battery and gas together
C1_Witness ==
    /\ IsModelJs /\ pc = "done" /\ FullProfile
    /\ \E k \in Hours :
          /\ Gt(flows.solarUsedFlow[k], Zero)
          /\ Gt(DischargeOf(k), Zero)
          /\ Gt(flows.gasFlow[k], Zero)

(***************************************************************************)
(* C2  Energy balance on the solar side, as claimed: in the first script   *)
(* of model.js every finished hour has solar used + battery charge +       *)
(* curtailed solar equal to the available (clipped) solar of the hour, for *)
(* any input fields, a negative battery capacity included.                 *)
(***************************************************************************)
C2_SolarBalance ==
    (variant = "modelA" /\ HasFlows /\ FullProfile) =>
        \A k \in DoneHours :
            NumEq(Add(Add(flows.solarUsedFlow[k], ChargeOf(k)),
                      flows.solarCurtailedFlow[k]),
                  AvailableSolar(k))

(***************************************************************************)
(* C3  State-of-charge bounds, as claimed: after every step of the hourly  *)
(* loop 0 <= batterySoC <= batteryCapMWh, in model.js (first script) and   *)
(* in part_004, for any input fields.                                      *)
(***************************************************************************)
C3_SocBounds ==
    (variant \in {"modelA", "p004"} /\ FullProfile
        /\ pc \in {"discharge", "gas"}) =>
        /\ Le(Zero, batterySoC)
        /\ Le(batterySoC, params.batteryCapMWh)

(***************************************************************************)
(* C4  Annual conservation.  At the end of a run of model.js on a profile  *)
(* that holds a number for every hour, totalSolarUsed +                    *)
(* totalBatteryDischarge + totalGasMWh equals totalDemandMWh, which is     *)
(* 1000 times the number of hours, whatever the input fields hold.         *)
(***************************************************************************)
C4_AnnualConservation ==
    (IsModelJs /\ pc = "done" /\ FullProfile) =>
        /\ NumEq(Add(Add(totals.totalSolarUsed, totals.totalBatteryDischarge),
                     totals.totalGasMWh),
                 totals.totalDemandMWh)
        /\ totals.totalDemandMWh = Int2Num(1000 * HOURS_PER_YEAR)

\* a finished run in which solar, battery and gas each delivered energy
\* and the battery was charged
C4_Witness ==
    /\ IsModelJs /\ pc = "done" /\ FullProfile
    /\ Gt(totals.totalSolarUsed, Zero)
    /\ Gt(totals.totalBatteryDischarge, Zero)
    /\ Gt(totals.totalGasMWh, Zero)
    /\ \E k \in Hours : Gt(ChargeOf(k), Zero)


(***************************************************************************)
(* C5  Missing profile data, as claimed: in model.js an hour whose profile *)
(* entry is missing has zero available solar, no NaN reaches batterySoC,   *)
(* an hourly array or an annual total, and the load step puts 0 at the     *)
(* index of a row without a value.                                         *)
(***************************************************************************)
C5_MissingHourIsZero ==
    (IsModelJs /\ HasFlows) =>
        /\ ~IsNaN(batterySoC)
        /\ \A c \in DOMAIN flows : \A k \in Hours : ~IsNaN(flows[c][k])
        /\ pc = "done" => \A t \in DOMAIN totals : ~IsNaN(totals[t])
        /\ \A k \in DoneHours :
              ArrayAt(solarProfile, k) = Undefined => flows.totalSolarFlow[k] = Zero
        /\ Len(solarProfile) = Len(csvRows)
        /\ \A i \in 1..Len(csvRows) :
              csvRows[i] = Undefined => solarProfile[i] = NumV(Zero)

(***************************************************************************)
(* C6  No abort on missing data, as claimed: every run, in every script    *)
(* and for every loaded profile (a short one included), executes all the   *)
(* hours and produces its flows and totals.                                *)
(***************************************************************************)
C6_RunCompletes ==
    pc = "done" =>
        /\ ~alerted
        /\ h = HOURS_PER_YEAR
        /\ HasFlows
        /\ DOMAIN totals # {}

(***************************************************************************)
(* C7  Positivity floor, as claimed: in model.js every parameter read from *)
(* a field is strictly positive when the run uses it, whatever the field   *)
(* holds, and a field value above the floor is passed through unchanged    *)
(* (as a fraction, for the three percentages).                             *)
(***************************************************************************)
FieldOf(n) ==
    CASE n = "solarCapGW" -> "solarCap"
      [] n = "batteryCapGWh" -> "batteryCap"
      [] OTHER -> n

IsPercentage(n) == n \in {"gasEfficiency", "waccFossil", "waccRenew"}

C7_ParamsPositive ==
    (IsModelJs /\ DOMAIN params # {}) =>
        \A n \in ParamNames :
            /\ Gt(params[n], Zero)
            /\ LET v == ParseFloat(fields[FieldOf(n)])
               IN  Gt(v, Floor) =>
                      params[n] = IF IsPercentage(n) THEN Div(v, Hundred) ELSE v

(***************************************************************************)
(* C8  Zero battery capacity.                                              *)
(* As claimed: with the battery capacity field at 0, in every hour battery *)
(* charge is 0, battery discharge is 0, batterySoC stays 0 and the         *)
(* curtailed solar is the whole surplus (available solar - solar used).    *)
(***************************************************************************)
C8_Original ==
    (IsModelJs /\ HasFlows /\ FullProfile /\ fields["batteryCap"] = "0") =>
        /\ batterySoC = Zero
        /\ \A k \in DoneHours :
              /\ ChargeOf(k) = Zero
              /\ DischargeOf(k) = Zero
              /\ flows.solarCurtailedFlow[k] =
                    Sub(AvailableSolar(k), flows.solarUsedFlow[k])

\* C8 as amended: with the battery capacity field at 0, batteryCapMWh is 0
\* in the first script of model.js and 0.1 MWh (the 0.0001 GWh clamp) in the
\* second; in every hour battery charge and battery discharge are at most
\* batteryCapMWh, batterySoC stays between 0 and batteryCapMWh, and the
\* curtailed solar is the surplus left after charging (available solar -
\* solar used - charge) when that is positive, and 0 otherwise.
C8_ZeroBattery ==
    (IsModelJs /\ HasFlows /\ fields["batteryCap"] = "0") =>
        /\ params.batteryCapMWh = IF variant = "modelA" THEN Zero ELSE <<1, 10>>
        /\ Le(Zero, batterySoC)
        /\ Le(batterySoC, params.batteryCapMWh)
        /\ \A k \in DoneHours :
              /\ Le(ChargeOf(k), params.batteryCapMWh)
              /\ Le(DischargeOf(k), params.batteryCapMWh)
              /\ flows.solarCurtailedFlow[k] =
                    PosPart(Sub(Sub(AvailableSolar(k), flows.solarUsedFlow[k]),
                                ChargeOf(k)))

\* the clamped battery of the second script is charged in one hour, with
\* solar curtailed, and discharged in a later one
C8_Witness ==
    /\ variant = "modelB" /\ pc = "done" /\ fields["batteryCap"] = "0"
    /\ \E k \in Hours :
          /\ ChargeOf(k) = <<1, 10>>
          /\ Gt(flows.solarCurtailedFlow[k], Zero)
          /\ \E j \in Hours : j > k /\ DischargeOf(j) = <<1, 10>>

C10_AllGas ==
    (IsModelJs /\ HasFlows /\ ZeroProfile /\ fields["batteryCap"] = "0") =>
        /\ \A k \in DoneHours : flows.gasFlow[k] = Demand
        /\ pc = "done" => totals.totalGasMWh = Int2Num(1000 * HOURS_PER_YEAR)

(***************************************************************************)
(* Vocabulary of the cost properties                                       *)
(***************************************************************************)
\* a run has ended with its sums and its cost results
Finished == pc = "done" /\ ~alerted /\ DOMAIN costs # {}

\* there was a run before the one that has ended
HasPrev == DOMAIN prev # {}

\* a number the model holds exactly and that is finite
Exact(x) == x[2] > 0

\* the annual energy attributed to each resource
GasEnergy == totals.totalGasMWh

SolarEnergy ==
    CASE IsModelJs -> totals.totalSolarUsed
      [] variant = "p001" -> totals.totalSolarUsedMWh
      [] OTHER -> totals.totalSolarMWh

BatteryEnergy ==
    CASE IsModelJs -> totals.totalBatteryDischarge
      [] variant \in {"p001", "p002"} -> totals.totalBatteryDischargeMWh
      [] OTHER -> totals.totalBatteryMWh

\* the run that has ended read the same texts as the run before it, except
\* in field f
DiffersOnlyIn(f) ==
    /\ Finished /\ HasPrev
    /\ prev.fields[f] # read[f]
    /\ \A g \in FieldNames \ {f} : prev.fields[g] = read[g]

(***************************************************************************)
(* C11  Idempotence.  In every script, a run starts with batterySoC = 0    *)
(* and arrays filled with zeros, also when another run went before it, and *)
(* a run that reads the same field texts as the run before it, over the    *)
(* same profile, ends with the same hourly flows, annual totals and cost   *)
(* results as that run.                                                    *)
(***************************************************************************)
C11_Idempotent ==
    /\ (pc = "solar" /\ h = 0) =>
          /\ batterySoC = Zero
          /\ \A c \in DOMAIN flows : \A k \in Hours : flows[c][k] = Zero
    /\ (Finished /\ HasPrev /\ prev.fields = read) =>
          /\ flows = prev.flows
          /\ totals = prev.totals
          /\ costs = prev.costs

\* a run repeated with the same fields, after a run that left the battery
\* charged and that gas, solar and battery all served
C11_Witness ==
    /\ Finished /\ HasPrev /\ prev.fields = read
    /\ Gt(batterySoC, Zero)
    /\ Gt(totals.totalGasMWh, Zero)
    /\ \E k \in Hours : \E c \in DOMAIN flows : Lt(flows[c][k], Zero)

(***************************************************************************)
(* C12  calcCRF at a rate of 0.  For every positive number of years n,     *)
(* calcCRF(0, n) is the finite number whose product with n is 1, that is   *)
(* 1/n; it does not come from the general formula, which gives NaN (0/0)   *)
(* at a rate of 0.                                                         *)
(***************************************************************************)
C12_ZeroRate ==
    (DOMAIN crfOut # {} /\ crfArgs.rate = Zero) =>
        /\ Gt(crfArgs.n1, Zero) =>
              /\ Exact(crfOut.v1)
              /\ Mul(crfOut.v1, crfArgs.n1) = Int2Num(1)
              /\ crfOut.v1 # calcCRF_NoZeroBranch(crfArgs.rate, crfArgs.n1)
        /\ Gt(crfArgs.n2, Zero) =>
              /\ Exact(crfOut.v2)
              /\ Mul(crfOut.v2, crfArgs.n2) = Int2Num(1)
              /\ crfOut.v2 # calcCRF_NoZeroBranch(crfArgs.rate, crfArgs.n2)

\* calcCRF(0, 20) has returned 1/20 and calcCRF(0, 3) has returned 1/3
C12_Witness ==
    /\ DOMAIN crfOut # {}
    /\ crfArgs.rate = Zero
    /\ crfArgs.n1 = Int2Num(20) /\ crfOut.v1 = <<1, 20>>
    /\ crfArgs.n2 = Int2Num(3) /\ crfOut.v2 = <<1, 3>>

(***************************************************************************)
(* C13  Monotonicity of calcCRF, as claimed: for a rate r > 0 and positive *)
(* n1 < n2, calcCRF(r, n1) > calcCRF(r, n2).  Results the model does not   *)
(* hold exactly are left out of the comparison.                            *)
(***************************************************************************)
C13_Decreasing ==
    (/\ DOMAIN crfOut # {}
     /\ Gt(crfArgs.rate, Zero)
     /\ Gt(crfArgs.n1, Zero)
     /\ Lt(crfArgs.n1, crfArgs.n2)
     /\ ~IsInexact(crfOut.v1)
     /\ ~IsInexact(crfOut.v2)) =>
        Gt(crfOut.v1, crfOut.v2)

(***************************************************************************)
(* C14  Zero discount rate, as claimed: in model.js, when the run read 0   *)
(* in a discount rate field and a positive lifetime L in the lifetime      *)
(* field of the same resource, the annualized capex of that resource is    *)
(* its total capital cost divided by L.  (Gas: waccFossil, lifetimeFossil; *)
(* solar: waccRenew, lifetimeSolar.)  The lifetimes followed are 1 and 2   *)
(* years, for which the model holds the factor exactly.                    *)
(***************************************************************************)
C14_ZeroRateCapex ==
    (IsModelJs /\ Finished) =>
        /\ (/\ read["waccFossil"] = "0"
            /\ Gt(ParseFloat(read["lifetimeFossil"]), Zero)
            /\ ~IsInexact(costs.gasAnnualCapex)) =>
              costs.gasAnnualCapex =
                  Div(costs.gasCapexTotal, ParseFloat(read["lifetimeFossil"]))
        /\ (/\ read["waccRenew"] = "0"
            /\ Gt(ParseFloat(read["lifetimeSolar"]), Zero)
            /\ ~IsInexact(costs.solarAnnualCapex)) =>
              costs.solarAnnualCapex =
                  Div(costs.solarCapexTotal, ParseFloat(read["lifetimeSolar"]))

(***************************************************************************)
(* C15  Fuel cost, as claimed: in every script the annual gas fuel cost is *)
(* (totalGasMWh / gasEfficiency) * gasFuel, and a run that differs from    *)
(* the run before it only in the efficiency it read has another fuel cost  *)
(* when gas delivered energy.                                              *)
(***************************************************************************)
C15_FuelCost ==
    Finished =>
        /\ ~IsInexact(costs.gasAnnualFuel) =>
              costs.gasAnnualFuel =
                  Mul(Div(totals.totalGasMWh, params.gasEfficiency), params.gasFuel)
        /\ (/\ DiffersOnlyIn("gasEfficiency")
            /\ ParseFloat(prev.fields["gasEfficiency"]) #
                  ParseFloat(read["gasEfficiency"])
            /\ Gt(totals.totalGasMWh, Zero)
            /\ Exact(costs.gasAnnualFuel)
            /\ Exact(prev.costs.gasAnnualFuel)) =>
              costs.gasAnnualFuel # prev.costs.gasAnnualFuel

(***************************************************************************)
(* C16  Zero attributed energy.  In the scripts that compute a levelized   *)
(* cost per resource (model.js first script, part_000, part_001, part_002, *)
(* part_004), a resource whose annual energy is 0 has a levelized cost of  *)
(* exactly 0, and totalAnnualCost is the sum of the three annual costs,    *)
(* whatever the energies are.                                              *)
(***************************************************************************)
C16_ZeroEnergyLcoe ==
    (Finished /\ variant # "modelB") =>
        /\ GasEnergy = Zero => costs.gasLcoe = Zero
        /\ SolarEnergy = Zero => costs.solarLcoe = Zero
        /\ BatteryEnergy = Zero => costs.batteryLcoe = Zero
        /\ costs.totalAnnualCost =
              Add(Add(costs.gasAnnualCost, costs.solarAnnualCost),
                  costs.batteryAnnualCost)

\* solar covers every hour, so gas and battery deliver nothing: their
\* levelized costs are 0 while their annual costs, positive, are in the total
C16_Witness ==
    /\ Finished /\ variant \in {"modelA", "p000"}
    /\ GasEnergy = Zero /\ BatteryEnergy = Zero
    /\ Exact(costs.gasAnnualCost) /\ Gt(costs.gasAnnualCost, Zero)
    /\ Exact(costs.batteryAnnualCost) /\ Gt(costs.batteryAnnualCost, Zero)
    /\ costs.gasLcoe = Zero /\ costs.batteryLcoe = Zero
    /\ Exact(costs.totalAnnualCost)
    /\ Gt(costs.totalAnnualCost, costs.solarAnnualCost)

(***************************************************************************)
(* C17  System levelized cost.  In both scripts of model.js the system     *)
(* figure (systemLcoe; levelizedSystemCost in the second script) is        *)
(* (gasAnnualCost + solarAnnualCost + batteryAnnualCost) divided by        *)
(* 1000 * HOURS_PER_YEAR, a divisor that no energy of the run enters.      *)
(***************************************************************************)
SystemCost ==
    IF variant = "modelB" THEN costs.levelizedSystemCost ELSE costs.systemLcoe

C17_SystemLcoe ==
    (IsModelJs /\ Finished) =>
        SystemCost =
            Div(Add(Add(costs.gasAnnualCost, costs.solarAnnualCost),
                    costs.batteryAnnualCost),
                Int2Num(1000 * HOURS_PER_YEAR))

\* a run of each script in which the three resources delivered energy and
\* the system figure is held exactly
C17_Witness ==
    /\ IsModelJs /\ Finished
    /\ Exact(SystemCost) /\ Gt(SystemCost, Zero)
    /\ Gt(GasEnergy, Zero) /\ Gt(SolarEnergy, Zero) /\ Gt(BatteryEnergy, Zero)
    /\ Lt(GasEnergy, Int2Num(1000 * HOURS_PER_YEAR))

(***************************************************************************)
(* C18  Fixed O&M.                                                         *)
(* As claimed: the annual fixed O&M of gas is 1000 MW * gasFixedOM, of     *)
(* solar solarCapMW * solarFixedOM, and of the battery the capacity in     *)
(* MWh * batteryFixedOM.                                                   *)
(***************************************************************************)
C18_Original ==
    Finished =>
        /\ costs.gasAnnualFixedOM = Mul(Int2Num(1000), params.gasFixedOM)
        /\ costs.solarAnnualFixedOM = Mul(params.solarCapMW, params.solarFixedOM)
        /\ Exact(costs.batteryAnnualFixedOM) =>
              costs.batteryAnnualFixedOM =
                  Mul(params.batteryCapMWh, params.batteryFixedOM)

\* C18 as amended: the annual fixed O&M of gas is 1000 MW * gasFixedOM, of
\* solar solarCapMW * solarFixedOM, and of the battery its power rating,
\* taken as the capacity in MWh divided by 4, times batteryFixedOM.
C18_FixedOM ==
    Finished =>
        /\ costs.gasAnnualFixedOM = Mul(Int2Num(1000), params.gasFixedOM)
        /\ costs.solarAnnualFixedOM = Mul(params.solarCapMW, params.solarFixedOM)
        /\ costs.batteryAnnualFixedOM =
              Mul(Div(params.batteryCapMWh, Int2Num(4)), params.batteryFixedOM)

\* a run with a battery of 1000 MWh at a rate of 1: its fixed O&M is 250
C18_Witness ==
    /\ Finished
    /\ params.batteryCapMWh = Int2Num(1000) /\ params.batteryFixedOM = Int2Num(1)
    /\ costs.batteryAnnualFixedOM = Int2Num(250)
    /\ costs.gasAnnualFixedOM = Int2Num(1000)
    /\ costs.solarAnnualFixedOM = Int2Num(3000)

(***************************************************************************)
(* C19  Annualized capex and its frame, as claimed: in every script the    *)
(* annualized capex of gas is its capex total times calcCRF(waccFossil,    *)
(* lifetimeFossil) and that of solar its capex total times                 *)
(* calcCRF(waccRenew, lifetimeSolar); a run that differs from the run      *)
(* before it only in the lifetimeSolar field has the same gas and battery  *)
(* annualized capex as that run, and one that differs only in the          *)
(* lifetimeFossil field the same solar and battery annualized capex.       *)
(***************************************************************************)
SameOrUnknown(x, y) == (Exact(x) /\ Exact(y)) => x = y

C19_CapexFrame ==
    Finished =>
        /\ costs.gasAnnualCapex =
              Mul(costs.gasCapexTotal,
                  calcCRF(params.waccFossil, params.lifetimeFossil))
        /\ costs.solarAnnualCapex =
              Mul(costs.solarCapexTotal,
                  calcCRF(params.waccRenew, params.lifetimeSolar))
        /\ DiffersOnlyIn("lifetimeSolar") =>
              /\ SameOrUnknown(costs.gasAnnualCapex, prev.costs.gasAnnualCapex)
              /\ SameOrUnknown(costs.batteryAnnualCapex,
                               prev.costs.batteryAnnualCapex)
        /\ DiffersOnlyIn("lifetimeFossil") =>
              /\ SameOrUnknown(costs.solarAnnualCapex, prev.costs.solarAnnualCapex)
              /\ SameOrUnknown(costs.batteryAnnualCapex,
                               prev.costs.batteryAnnualCapex)

(***************************************************************************)
(* C20  Merit order within the hour.  In both scripts of model.js, for     *)
(* every finished hour: gas output is positive only if the solar used is   *)
(* all the available solar of the hour and the battery is empty when the   *)
(* hour ends; the battery discharges only if the available solar is below  *)
(* the demand; and a positive gas output is the whole of demand - solar    *)
(* used - discharge, with no ceiling at the 1000 MW of the gas plant.      *)
(***************************************************************************)
C20_MeritOrder ==
    (IsModelJs /\ HasFlows) =>
        /\ \A k \in DoneHours :
              /\ Gt(flows.gasFlow[k], Zero) =>
                    /\ flows.solarUsedFlow[k] = AvailableSolar(k)
                    /\ flows.gasFlow[k] =
                          Sub(Sub(Demand, flows.solarUsedFlow[k]), DischargeOf(k))
              /\ Gt(DischargeOf(k), Zero) => Lt(AvailableSolar(k), Demand)
        /\ (pc \in {"solar", "sum", "done"} /\ h > 0
                /\ Gt(flows.gasFlow[h - 1], Zero)) =>
              batterySoC = Zero

\* an hour has just ended in which solar, the battery and gas served the
\* load: all the solar was used and the battery was emptied before gas ran
C20_Witness ==
    /\ IsModelJs /\ HasFlows /\ pc \in {"solar", "sum"} /\ h > 0
    /\ Gt(flows.gasFlow[h - 1], Zero)
    /\ Gt(DischargeOf(h - 1), Zero)
    /\ Gt(flows.solarUsedFlow[h - 1], Zero)
    /\ flows.solarUsedFlow[h - 1] = AvailableSolar(h - 1)
    /\ batterySoC = Zero

(***************************************************************************)
(* C21  Curtailment, as claimed: in model.js, right after the charging     *)
(* step of an hour and whatever the input fields hold, curtailed solar of  *)
(* the hour is positive only if the solar used equals the demand and       *)
(* batterySoC equals batteryCapMWh; and the amount charged in the hour is  *)
(* min(solar surplus, batteryCapMWh - batterySoC before the charge).       *)
(***************************************************************************)
AfterCharge == IsModelJs /\ pc = "discharge" /\ FullProfile

\* available solar of the hour that was not delivered to load
SolarSurplus(k) == Sub(AvailableSolar(k), flows.solarUsedFlow[k])

C21_Curtailment ==
    AfterCharge =>
        /\ Gt(flows.solarCurtailedFlow[h], Zero) =>
              /\ flows.solarUsedFlow[h] = Demand
              /\ batterySoC = params.batteryCapMWh
        /\ ChargeOf(h) =
              MathMin(SolarSurplus(h),
                      Sub(params.batteryCapMWh, Sub(batterySoC, ChargeOf(h))))

(***************************************************************************)
(* C22  The hourly loop.  In both scripts of model.js every step of the    *)
(* loop body belongs to an hour h in 0..HOURS_PER_YEAR-1; h grows by one   *)
(* when the body ends and never otherwise, and the loop is left, for the   *)
(* sums, exactly when h reaches HOURS_PER_YEAR; a step of hour h changes   *)
(* no entry of a flow array other than entry h; and an iteration starts    *)
(* from nothing of the iteration before it but batterySoC (its block-      *)
(* scoped values are computed anew from the constants of the run, the      *)
(* profile and h).                                                         *)
(***************************************************************************)
LoopPcs == {"solar", "charge", "discharge", "gas"}

C22_Step ==
    (IsModelJs /\ pc \in LoopPcs) =>
        /\ h \in Hours
        /\ h' = IF pc = "gas" THEN h + 1 ELSE h
        /\ IF h' < HOURS_PER_YEAR THEN pc' \in LoopPcs ELSE pc' = "sum"
        /\ pc' = "solar" <=> (pc = "gas" /\ h' < HOURS_PER_YEAR)
        /\ \A c \in DOMAIN flows : \A k \in Hours \ {h} :
              flows'[c][k] = flows[c][k]
        /\ pc = "solar" =>
              loc' = SolarStepAB(params, solarProfile, Zero, flows, None, h).loc

C22_LoopOrder == [][C22_Step]_vars

\* the loop has been left after its last hour, with something written in
\* the entries of every hour, the battery charged in one hour and
\* discharged in a later one
C22_Witness ==
    /\ IsModelJs /\ pc = "sum" /\ h = HOURS_PER_YEAR
    /\ \A k \in Hours :
          Gt(flows.solarUsedFlow[k], Zero) \/ Gt(flows.gasFlow[k], Zero)
    /\ \E k \in Hours : \E j \in Hours :
          j > k /\ Gt(ChargeOf(k), Zero) /\ Gt(DischargeOf(j), Zero)

(***************************************************************************)
(* C23  Solar attribution, as claimed: in every script that computes a     *)
(* levelized cost of solar, the energy the annual cost of solar is divided *)
(* by is the solar delivered directly to load, summed over the hours       *)
(* (min(demand, available solar) in each hour), without the solar routed   *)
(* to the battery and the curtailed solar; solarLcoe is the annual cost    *)
(* over that energy; and in model.js it is what solarUsedFlow records.     *)
(***************************************************************************)
\* solar of hour k that goes straight to load
DirectSolar(k) == MathMin(Demand, AvailableSolar(k))

C23_SolarAttribution ==
    (Finished /\ variant # "modelB" /\ FullProfile) =>
        /\ SolarEnergy = sumArray([k \in Hours |-> DirectSolar(k)])
        /\ costs.solarLcoe =
              IF Gt(SolarEnergy, Zero)
              THEN Div(costs.solarAnnualCost, SolarEnergy) ELSE Zero
        /\ IsModelJs => \A k \in Hours : flows.solarUsedFlow[k] = DirectSolar(k)

(***************************************************************************)
(* C24  Total demand in part_004, as claimed: at the end of a run of the   *)
(* first script of part_004 on a profile that holds a number for every     *)
(* hour, totalDemandMWh, computed as totalSolarMWh + totalBatteryMWh +     *)
(* totalGasMWh, equals 1000 times the number of hours, whatever the        *)
(* profile and the solar and battery capacities are.                       *)
(***************************************************************************)
C24_DemandTotal004 ==
    (variant = "p004" /\ Finished /\ FullProfile) =>
        /\ totals.totalDemandMWh =
              Add(Add(totals.totalSolarMWh, totals.totalBatteryMWh),
                  totals.totalGasMWh)
        /\ totals.totalDemandMWh = Int2Num(1000 * HOURS_PER_YEAR)

(***************************************************************************)
(* C25  One battery direction per hour.  In both scripts of model.js the   *)
(* charging step of hour h writes the energy it stored, negated, to        *)
(* batteryFlow[h]; the discharging step changes batterySoC only in an hour *)
(* in which nothing was stored, and then writes the energy it took to      *)
(* batteryFlow[h]; so an entry is never overwritten, and at the end of the *)
(* run totalBatteryDischarge is the sum of the positive entries.           *)
(***************************************************************************)
C25_Step ==
    /\ (IsModelJs /\ pc = "charge") =>
          flows'.batteryFlow[h] = Neg(Sub(batterySoC', batterySoC))
    /\ (IsModelJs /\ pc = "discharge") =>
          /\ batterySoC' # batterySoC => flows.batteryFlow[h] = Zero
          /\ flows.batteryFlow[h] # Zero => flows' = flows
          /\ flows.batteryFlow[h] = Zero =>
                flows'.batteryFlow[h] = Sub(batterySoC, batterySoC')

C25_OneDirection ==
    /\ [][C25_Step]_vars
    /\ []((IsModelJs /\ Finished) =>
            totals.totalBatteryDischarge =
                sumArray([k \in Hours |-> DischargeOf(k)]))

\* a finished run whose battery was charged in one hour and discharged in
\* another, with a positive discharge total
C25_Witness ==
    /\ IsModelJs /\ Finished
    /\ \E k \in Hours : Lt(flows.batteryFlow[k], Zero)
    /\ \E k \in Hours : Gt(flows.batteryFlow[k], Zero)
    /\ Gt(totals.totalBatteryDischarge, Zero)

(***************************************************************************)
(* C26  Battery energy conservation.  In both scripts of model.js, when h  *)
(* hours have ended, batterySoC is the sum of the charge of hours 0..h-1   *)
(* minus the sum of their discharge; and over every prefix of the finished *)
(* hours the discharge does not exceed the charge, so the battery delivers *)
(* nothing in a run before it has stored energy in that run.               *)
(***************************************************************************)
\* charge and discharge of the first n hours
ChargedBy(n) == SumFirst([k \in Hours |-> ChargeOf(k)], n)

DischargedBy(n) == SumFirst([k \in Hours |-> DischargeOf(k)], n)

C26_BatteryConservation ==
    (IsModelJs /\ HasFlows /\ pc \in {"solar", "sum", "done"}) =>
        /\ batterySoC = Sub(ChargedBy(h), DischargedBy(h))
        /\ \A n \in 0..h : Le(DischargedBy(n), ChargedBy(n))

\* two hours have ended: the battery was charged in the first and gave a
\* part of its energy in the second
C26_Witness ==
    /\ IsModelJs /\ pc = "solar" /\ h = 2
    /\ Gt(ChargeOf(0), Zero) /\ Gt(DischargeOf(1), Zero)
    /\ Gt(batterySoC, Zero)

(***************************************************************************)
(* C27  Bounds of the hourly quantities, as claimed: in both scripts of    *)
(* model.js, with a profile that holds a non-negative number for every     *)
(* hour and whatever the input fields hold, every finished hour has        *)
(* 0 <= solar used <= 1000, 0 <= gas output <= 1000, and a non-negative    *)
(* battery discharge, battery charge and curtailed solar.                  *)
(***************************************************************************)
C27_HourlyBounds ==
    (IsModelJs /\ HasFlows /\ FullProfile) =>
        \A k \in DoneHours :
            /\ Le(Zero, flows.solarUsedFlow[k]) /\ Le(flows.solarUsedFlow[k], Demand)
            /\ Le(Zero, flows.gasFlow[k]) /\ Le(flows.gasFlow[k], GasCapMW)
            /\ Le(Zero, DischargeOf(k))
            /\ Le(Zero, ChargeOf(k))
            /\ Le(Zero, flows.solarCurtailedFlow[k])

(***************************************************************************)
(* C28  Equivalence of the loops, as claimed: for the same profile, solar  *)
(* capacity, battery capacity and inverter ratio, whatever the fields      *)
(* hold, the loop of part_002 and the loop of the first script of part_004 *)
(* give in every hour the same gas output, the same battery discharge and  *)
(* the same batterySoC after the hour as the loop of model.js.  The        *)
(* property is read where a run of the first script of model.js has left   *)
(* its loop: the other two loops are applied to the constants and the      *)
(* profile of that run.                                                    *)
(***************************************************************************)
C28_LoopsAgree ==
    (variant = "modelA" /\ pc = "sum") =>
        LET a == LoopOf("modelA", params, solarProfile, HOURS_PER_YEAR)
            b == LoopOf("p002", params, solarProfile, HOURS_PER_YEAR)
            c == LoopOf("p004", params, solarProfile, HOURS_PER_YEAR)
        IN  /\ a.flows = flows /\ a.soc = batterySoC
            /\ \A k \in Hours :
                  /\ b.flows.gasFlow[k] = flows.gasFlow[k]
                  /\ PosPart(b.flows.batteryFlow[k]) = DischargeOf(k)
                  /\ b.socAfter[k] = a.socAfter[k]
                  /\ c.flows.gasGen[k] = flows.gasFlow[k]
                  /\ c.flows.batteryGen[k] = DischargeOf(k)
                  /\ c.socAfter[k] = a.socAfter[k]

(***************************************************************************)
(* C29  Breakdown chart against the summary, as claimed: in the first      *)
(* script of model.js the capex and opex figures of a resource passed to   *)
(* updateLcoeBreakdownChart add up to the levelized cost of the resource   *)
(* shown in the summary, in every run, the runs in which the resource has  *)
(* no energy and a positive annual cost included.  Figures the model does  *)
(* not hold exactly are left out of the comparison.                        *)
(***************************************************************************)
C29_BreakdownSums ==
    (variant = "modelA" /\ Finished) =>
        /\ SameOrUnknown(Add(costs.breakdown.gasCapex, costs.breakdown.gasOpex),
                         costs.gasLcoe)
        /\ SameOrUnknown(Add(costs.breakdown.solarCapex, costs.breakdown.solarOpex),
                         costs.solarLcoe)
        /\ SameOrUnknown(Add(costs.breakdown.batteryCapex,
                             costs.breakdown.batteryOpex),
                         costs.batteryLcoe)

(***************************************************************************)
(* C30  The length guard of part_000.  Whatever the order of the load      *)
(* completion and the clicks on Update: the click listener exists only     *)
(* once the load has completed; no step of the loop and no summary runs on *)
(* a profile with fewer than HOURS_PER_YEAR entries; and a run that finds  *)
(* such a profile ends at once, with the alert, leaving batterySoC, the    *)
(* flow arrays, the totals and the cost results as they were.              *)
(***************************************************************************)
ShortProfile == Len(solarProfile) < HOURS_PER_YEAR

C30_GuardStep ==
    (variant = "p000" /\ pc = "read" /\ ShortProfile) =>
        /\ pc' = "done" /\ alerted'
        /\ flows' = flows /\ totals' = totals /\ costs' = costs
        /\ batterySoC' = batterySoC /\ h' = h

C30_LengthGuard ==
    /\ []((variant = "p000") =>
            /\ listener => loaded
            /\ pc # "idle" => listener
            /\ pc \in {"solar", "charge", "discharge", "gas", "sum"} =>
                  ~ShortProfile
            /\ ShortProfile => (~HasFlows /\ totals = None /\ costs = None))
    /\ [][C30_GuardStep]_vars

\* a click on Update after the load of a short file: the run has ended at
\* the guard and nothing was created
C30_Witness ==
    /\ variant = "p000" /\ loaded /\ ShortProfile
    /\ pc = "done" /\ alerted
    /\ ~HasFlows /\ totals = None /\ costs = None

====
